---- MODULE Spec2Model ----
(***************************************************************************)
(* Rating aggregation (lib/comments.ts) and post pagination                *)
(* (lib/database.ts getPosts, hooks/use-posts.ts) of the blog application. *)
(*                                                                         *)
(* Every await of the source is a scheduling point: a call is a little     *)
(* process whose pc names the backend request it is waiting for.           *)
(* avgRating is kept in tenths (avgRating = 37 stands for 3.7).            *)
(***************************************************************************)
EXTENDS Integers, Sequences, FiniteSets, TLC

\* ------------------------------------------------------------------ bounds
\* Calls of addOrUpdateRating / deleteRating ever issued in one behaviour.
MaxCalls == 3

\* Rating is "1-5 stars" (types/blog.ts); the star buttons run 1..5.
MinStars == 1
MaxStars == 5

Posts == {"p1", "p2"}
Authors == {"a1", "a2"}

\* Values a caller may pass as `rating: number`: the ends of the range and
\* one value outside it.
StarInputs == {MinStars, MaxStars, MaxStars + 1}

\* Posts of the fixed corpus a listing runs over, and the page sizes asked for.
MaxPosts == 8
MaxPageSize == 3

\* useInfinitePosts: limit: options.limit || 12
DefaultPageSize == 12

SortModes == {"newest", "oldest", "rating", "views"}

\* How the fields of the corpus lie relative to the document ids.
Shapes == {"ordered", "reversed", "scattered"}

\* No document: an empty query result, null, undefined.
NoDoc == 0

VARIABLES
    ratings,    \* the ratings collection: rows [id, postId, authorId, rating]
    posts,      \* the posts collection: postId -> [avgRating, totalRatings]
    calls,      \* call id -> the call's arguments, position and locals
    nextId,     \* next call id (a new rating document takes its call's id)
    order,      \* history: ids of the settled calls, in the order they settled
    overlaps,   \* history: pairs {c, d} of calls that were in flight together
    corpus,     \* the posts a listing runs over: doc id -> its sort fields
    sortBy,     \* options.sortBy of useInfinitePosts
    pageSize,   \* options.limit of useInfinitePosts (0: absent)
    pages       \* the pages the infinite query has fetched, in order

ratingVars == <<ratings, posts, calls, nextId, order, overlaps>>

pageVars == <<corpus, sortBy, pageSize, pages>>

VARIABLES
    searchQuery,   \* the argument of searchPosts, a string
    searchResult   \* [done, posts]: the posts searchPosts resolved with

searchVars == <<searchQuery, searchResult>>

VARIABLES
    tagArg,        \* the argument of getPostsByTag
    tagResult      \* [done, posts]: the posts getPostsByTag resolved with

tagVars == <<tagArg, tagResult>>

VARIABLES
    file,          \* the argument of validateFile: [size, type]
    verdict,       \* [done, result]: what validateFile returned
    hookVerdict    \* [done, valid, errors]: what the hook's validateFiles returned

validateVars == <<file, verdict, hookVerdict>>

VARIABLES
    objects,       \* the storage bucket: objects [path, content, timeCreated]
    upload,        \* the uploadMultipleFiles call and its uploads
    progress,      \* the calls of onProgress, in order: <<index, total>>
    move,          \* the moveFilesToPost call
    sweep          \* the cleanupTempFiles call

uploadVars == <<upload, progress>>

mediaVars == <<validateVars, objects, uploadVars, move, sweep>>

catalogueVars == <<ratingVars, pageVars, searchVars, tagVars>>

VARIABLES
    ui,            \* the rating section: its handler's position and what it showed
    live,          \* ids of the documents of the posts collection
    created,       \* history: every id the posts collection has handed out
    comments,      \* the comments collection: rows [id, postId]
    commentCalls,  \* call id -> the addComment call: [postId, pc]
    del,           \* the deletePost call
    postDocs,      \* postId -> the other fields of the post: [viewCount, title]
    writes,        \* call id -> an incrementViewCount or updatePost call
    form,          \* the post form's onSubmit
    session,       \* auth.currentUser of the identity provider's SDK
    appUser,       \* user of the auth store
    signIn,        \* the signInWithGoogle call
    authEvents     \* the auth states the listener has yet to be told of

uiVars == <<ui>>

lifeVars == <<live, created, comments, commentCalls, del>>

viewVars == <<postDocs, writes>>

formVars == <<form>>

authVars == <<session, appUser, signIn, authEvents>>

appVars == <<uiVars, lifeVars, viewVars, formVars, authVars>>

\* What the calls of one part of the program leave alone.
nonRatingVars == <<appVars, pageVars, searchVars, tagVars, mediaVars>>

nonPageVars == <<appVars, ratingVars, searchVars, tagVars, mediaVars>>

nonSearchVars == <<appVars, ratingVars, pageVars, tagVars, mediaVars>>

nonTagVars == <<appVars, ratingVars, pageVars, searchVars, mediaVars>>

nonValidateVars == <<appVars, catalogueVars, objects, uploadVars, move, sweep>>

nonUploadVars == <<appVars, catalogueVars, validateVars, move, sweep>>

nonMoveVars == <<appVars, catalogueVars, validateVars, uploadVars, sweep>>

nonSweepVars == <<appVars, catalogueVars, validateVars, uploadVars, move>>

\* ------------------------------------------------------------ pure helpers
RECURSIVE SumRatings(_)
SumRatings(rows) ==
    IF rows = {} THEN 0
    ELSE LET row == CHOOSE x \in rows : TRUE
         IN  row.rating + SumRatings(rows \ {row})

\* Math.round(total / n * 10): nearest integer, halves upward.
RoundTenths(total, n) == (20 * total + n) \div (2 * n)

\* query(ratings, where postId == p, where authorId == a)
ExistingRatingQuery(p, a) ==
    {row \in ratings : row.postId = p /\ row.authorId = a}

\* A bug: the collection is read without the postId filter.
AllRatings(p) == ratings

\* getPostRatings: query(ratings, where postId == p)
PostRatings(p) == {row \in ratings : row.postId = p}

\* The fields updatePostRating writes for a fetched list of ratings.
Aggregates(rows) ==
    IF Cardinality(rows) = 0
    THEN [avgRating |-> 0, totalRatings |-> 0]
    ELSE [avgRating |-> RoundTenths(SumRatings(rows), Cardinality(rows)),
          totalRatings |-> Cardinality(rows)]

\* A bug: every submission is staged as an insert.
AlwaysSet(found) == "set"

\* The write addOrUpdateRating stages in its batch.
StagedWrite(found) == IF found # NoDoc THEN "update" ELSE "set"

\* The rating rows of a post, as the claims read them off the collection.
RowsOf(p) == {row \in ratings : row.postId = p}

InFlight == {c \in DOMAIN calls : calls[c].pc \notin {"done", "failed"}}

Settle(c, pc) ==
    /\ calls' = [calls EXCEPT ![c].pc = pc, ![c].seen = {}]
    /\ order' = Append(order, c)

\* --------------------------------------------------------------- the calls
\* A caller invokes addOrUpdateRating(p, r, a) or deleteRating(p, a); the
\* function runs to its first await, the getDocs of the existing-rating query.
\* `pre` is history: the post's rows and aggregates, and the collection, when
\* the call was made.
Invoke(op, p, a, r) ==
    /\ nextId <= MaxCalls
    /\ calls' = calls @@ (nextId :>
          [op |-> op, postId |-> p, authorId |-> a, rating |-> r,
           pc |-> "query", found |-> NoDoc, seen |-> {},
           pre |-> [rows |-> RowsOf(p), post |-> posts[p], all |-> ratings]])
    /\ overlaps' = overlaps \cup {{c, nextId} : c \in InFlight}
    /\ nextId' = nextId + 1
    /\ UNCHANGED <<ratings, posts, order, nonRatingVars>>

AddOrUpdateRatingCall ==
    \E p \in Posts, a \in Authors, r \in StarInputs : Invoke("submit", p, a, r)

DeleteRatingCall ==
    \E p \in Posts, a \in Authors : Invoke("delete", p, a, 0)

\* await getDocs(existingRatingQuery); the branch on snapshot.empty stages
\* batch.update(docs[0].ref) or batch.set(new ref). Nothing is written yet.
AddOrUpdateRatingQuery(c) ==
    /\ calls[c].op = "submit" /\ calls[c].pc = "query"
    /\ LET snapshot == ExistingRatingQuery(calls[c].postId, calls[c].authorId)
       IN  \/ /\ snapshot = {}
              /\ calls' = [calls EXCEPT ![c].pc = "read"]
           \/ \E ratingDoc \in snapshot :
                calls' = [calls EXCEPT ![c].pc = "read", ![c].found = ratingDoc.id]
    /\ UNCHANGED <<ratings, posts, nextId, order, overlaps, nonRatingVars>>

\* updatePostRating: ratings = await getPostRatings(postId)
UpdatePostRatingRead(c) ==
    /\ calls[c].pc = "read"
    /\ calls' = [calls EXCEPT ![c].pc = "write",
                              ![c].seen = PostRatings(calls[c].postId)]
    /\ UNCHANGED <<ratings, posts, nextId, order, overlaps, nonRatingVars>>

\* updatePostRating: await updateDoc(postRef, {avgRating, totalRatings}).
\* It is the last await of deleteRating, and is followed by batch.commit()
\* in addOrUpdateRating. The post has its document: updateDoc writes the two
\* fields and leaves the others.
UpdatePostRatingWrite(c) ==
    /\ calls[c].pc = "write"
    /\ calls[c].postId \in live
    /\ posts' = [posts EXCEPT ![calls[c].postId] = Aggregates(calls[c].seen)]
    /\ IF calls[c].op = "submit"
       THEN /\ calls' = [calls EXCEPT ![c].pc = "commit", ![c].seen = {}]
            /\ order' = order
       ELSE Settle(c, "done")
    /\ UNCHANGED <<ratings, nextId, overlaps, nonRatingVars>>

\* await batch.commit(): the staged write reaches the ratings collection. An
\* update of a document that no longer exists rejects the batch, and the
\* error is rethrown.
BatchCommit(c) ==
    /\ calls[c].op = "submit" /\ calls[c].pc = "commit"
    /\ LET me == calls[c]
       IN  IF StagedWrite(me.found) = "update"
           THEN IF \E row \in ratings : row.id = me.found
                THEN /\ ratings' = {IF row.id = me.found
                                    THEN [row EXCEPT !.rating = me.rating]
                                    ELSE row : row \in ratings}
                     /\ Settle(c, "done")
                ELSE /\ ratings' = ratings
                     /\ Settle(c, "failed")
           ELSE /\ ratings' = ratings \cup
                       {[id |-> c, postId |-> me.postId,
                         authorId |-> me.authorId, rating |-> me.rating]}
                /\ Settle(c, "done")
    /\ UNCHANGED <<posts, nextId, overlaps, nonRatingVars>>

\* deleteRating: await getDocs(q); an empty snapshot ends the call.
DeleteRatingQuery(c) ==
    /\ calls[c].op = "delete" /\ calls[c].pc = "query"
    /\ LET snapshot == ExistingRatingQuery(calls[c].postId, calls[c].authorId)
       IN  \/ /\ snapshot = {}
              /\ Settle(c, "done")
           \/ \E ratingDoc \in snapshot :
                /\ calls' = [calls EXCEPT ![c].pc = "delete", ![c].found = ratingDoc.id]
                /\ order' = order
    /\ UNCHANGED <<ratings, posts, nextId, overlaps, nonRatingVars>>

\* deleteRating: await deleteDoc(ratingDoc.ref) (deleting an absent document
\* succeeds), then updatePostRating(postId).
DeleteRatingDeleteDoc(c) ==
    /\ calls[c].op = "delete" /\ calls[c].pc = "delete"
    /\ ratings' = {row \in ratings : row.id # calls[c].found}
    /\ calls' = [calls EXCEPT ![c].pc = "read"]
    /\ UNCHANGED <<posts, nextId, order, overlaps, nonRatingVars>>

RatingInit ==
    /\ ratings = {}
    /\ posts = [p \in Posts |-> [avgRating |-> 0, totalRatings |-> 0]]
    /\ calls = <<>>
    /\ nextId = 1
    /\ order = <<>>
    /\ overlaps = {}

RatingSteps ==
    \/ \E c \in DOMAIN calls : AddOrUpdateRatingQuery(c)
    \/ \E c \in DOMAIN calls : UpdatePostRatingRead(c)
    \/ \E c \in DOMAIN calls : UpdatePostRatingWrite(c)
    \/ \E c \in DOMAIN calls : BatchCommit(c)
    \/ \E c \in DOMAIN calls : DeleteRatingQuery(c)
    \/ \E c \in DOMAIN calls : DeleteRatingDeleteDoc(c)

\* Callers that do not wait for each other: any interleaving of the awaits.
RatingNext ==
    \/ AddOrUpdateRatingCall
    \/ DeleteRatingCall
    \/ RatingSteps

\* A caller that awaits each call before issuing the next one.
AwaitedAddOrUpdateRatingCall == InFlight = {} /\ AddOrUpdateRatingCall

AwaitedDeleteRatingCall == InFlight = {} /\ DeleteRatingCall

RatingNextSeq ==
    \/ AwaitedAddOrUpdateRatingCall
    \/ AwaitedDeleteRatingCall
    \/ RatingSteps

\* -------------------------------------------------------------- listing
DocIds == DOMAIN corpus

\* orderBy(field): the field each sort mode orders by.
SortKey(mode, d) ==
    CASE mode = "oldest" -> corpus[d].createdAt
      [] mode = "rating" -> corpus[d].avgRating
      [] mode = "views" -> corpus[d].viewCount
      [] OTHER -> corpus[d].createdAt

\* A bug: every mode, 'oldest' too, is ordered descending.
PrecedesDescending(mode, d, e) ==
    \/ SortKey(mode, d) > SortKey(mode, e)
    \/ SortKey(mode, d) = SortKey(mode, e) /\ d > e

\* orderBy(field, 'asc' | 'desc'): only 'oldest' ascends. Documents with equal
\* fields follow each other by document id, in the direction of the field.
Precedes(mode, d, e) ==
    IF mode = "oldest"
    THEN \/ SortKey(mode, d) < SortKey(mode, e)
         \/ SortKey(mode, d) = SortKey(mode, e) /\ d < e
    ELSE \/ SortKey(mode, d) > SortKey(mode, e)
         \/ SortKey(mode, d) = SortKey(mode, e) /\ d > e

Position(mode, d) == 1 + Cardinality({e \in DocIds : Precedes(mode, e, d)})

Ordered(mode) ==
    [i \in 1..Cardinality(DocIds) |-> CHOOSE d \in DocIds : Position(mode, d) = i]

Min(a, b) == IF a < b THEN a ELSE b

\* getDocs(query(posts, orderBy, limit(count), startAfter(lastDoc))); the
\* startAfter constraint is added only for a truthy lastDoc.
RunQuery(mode, count, lastDoc) ==
    LET from == IF lastDoc # NoDoc THEN Position(mode, lastDoc) ELSE 0
    IN  SubSeq(Ordered(mode), from + 1, Min(Cardinality(DocIds), from + count))

\* A bug: the look-ahead record is taken for a further page when it is absent.
HasMoreOffByOne(docs, limitCount) == Len(docs) >= limitCount

\* const hasMore = posts.length > limitCount
HasMore(docs, limitCount) == Len(docs) > limitCount

\* getPosts({sortBy, limit, startAfter}): one record more than the page is
\* fetched, and popped when it is there.
GetPosts(mode, limitCount, lastDoc) ==
    LET docs == RunQuery(mode, limitCount + 1, lastDoc)
        hasMore == HasMore(docs, limitCount)
    IN  [posts |-> IF hasMore THEN SubSeq(docs, 1, Len(docs) - 1) ELSE docs,
         hasMore |-> hasMore,
         lastDoc |-> IF hasMore /\ limitCount \in DOMAIN docs
                     THEN docs[limitCount] ELSE NoDoc]

\* limit: options.limit || 12
EffectiveLimit(k) == IF k = 0 THEN DefaultPageSize ELSE k

\* queryFn of useInfinitePosts
QueryFn(pageParam) == GetPosts(sortBy, EffectiveLimit(pageSize), pageParam)

\* getNextPageParam: lastPage.hasMore ? lastPage.lastDoc : undefined
GetNextPageParam(lastPage) == IF lastPage.hasMore THEN lastPage.lastDoc ELSE NoDoc

\* The first fetch of the infinite query, with initialPageParam: null.
FetchFirstPage ==
    /\ pages = <<>>
    /\ pages' = <<QueryFn(NoDoc)>>
    /\ UNCHANGED <<corpus, sortBy, pageSize, nonPageVars>>

\* fetchNextPage, offered while getNextPageParam returns a cursor.
FetchNextPage ==
    /\ pages # <<>>
    /\ GetNextPageParam(pages[Len(pages)]) # NoDoc
    /\ pages' = Append(pages, QueryFn(GetNextPageParam(pages[Len(pages)])))
    /\ UNCHANGED <<corpus, sortBy, pageSize, nonPageVars>>

\* A corpus of n posts. Document ids are arbitrary names, so the fields may
\* follow them, run against them or be scattered; view counts and ratings
\* repeat, creation times repeat only in a scattered corpus.
Corpus(n, shape) ==
    [d \in 1..n |->
        CASE shape = "ordered" ->
               [createdAt |-> d, avgRating |-> 0, viewCount |-> 0]
          [] shape = "reversed" ->
               [createdAt |-> n + 1 - d, avgRating |-> 10 * (d % 5), viewCount |-> d % 3]
          [] OTHER ->
               [createdAt |-> (3 * d) % (n + 1), avgRating |-> (7 * d) % 50,
                viewCount |-> (d * d) % 5]]

PagesInit ==
    /\ \E n \in 0..MaxPosts, shape \in Shapes : corpus = Corpus(n, shape)
    /\ sortBy \in SortModes
    /\ pageSize \in 0..MaxPageSize
    /\ pages = <<>>

\* No listing is running.
PagesIdle ==
    /\ corpus = <<>>
    /\ sortBy = "newest"
    /\ pageSize = 0
    /\ pages = <<>>

PagesNext ==
    \/ FetchFirstPage
    \/ FetchNextPage

\* --------------------------------------------------------------- search
\* Strings are sequences of characters; these are the characters of the
\* queries and of the posts' text.
Alphabet == {"a", "b", "B", " "}

MaxQueryLen == 3

Strings(n) == UNION {[1..k -> Alphabet] : k \in 0..n}

\* String.prototype.toLowerCase
ToLowerCase(s) ==
    [i \in DOMAIN s |-> IF s[i] = "A" THEN "a" ELSE IF s[i] = "B" THEN "b" ELSE s[i]]

\* The position of the first space of s, 0 when it has none.
FirstSpace(s) ==
    IF \E i \in DOMAIN s : s[i] = " "
    THEN CHOOSE i \in DOMAIN s : s[i] = " " /\ \A j \in 1..(i - 1) : s[j] # " "
    ELSE 0

\* String.prototype.split(' '): the pieces between single spaces, the empty
\* pieces included; the empty string splits into one empty piece.
RECURSIVE Split(_)
Split(s) ==
    LET i == FirstSpace(s)
    IN  IF i = 0 THEN <<s>>
        ELSE <<SubSeq(s, 1, i - 1)>> \o Split(SubSeq(s, i + 1, Len(s)))

\* Array.prototype.join(' ')
RECURSIVE Join(_)
Join(ss) ==
    IF ss = <<>> THEN <<>>
    ELSE IF Len(ss) = 1 THEN Head(ss)
    ELSE Head(ss) \o <<" ">> \o Join(Tail(ss))

\* String.prototype.includes: the empty string is included in every string.
Includes(s, term) ==
    \E i \in 0..(Len(s) - Len(term)) : SubSeq(s, i + 1, i + Len(term)) = term

\* `${post.title} ${post.content} ${post.excerpt} ${post.tags.join(' ')}`.toLowerCase()
SearchContent(post) ==
    ToLowerCase(post.title \o <<" ">> \o post.content \o <<" ">> \o post.excerpt
                \o <<" ">> \o Join(post.tags))

\* getPosts({ limit: 100 })
SearchBatchLimit == 100

SearchBatch == GetPosts("newest", SearchBatchLimit, NoDoc).posts

\* searchPosts(searchQuery)
SearchPosts(q) ==
    LET searchTerms == Split(ToLowerCase(q))
        Keep(d) == \E k \in DOMAIN searchTerms :
                       Includes(SearchContent(corpus[d]), searchTerms[k])
    IN  SelectSeq(SearchBatch, Keep)

SearchPostsCall ==
    /\ ~searchResult.done
    /\ searchResult' = [done |-> TRUE, posts |-> SearchPosts(searchQuery)]
    /\ UNCHANGED <<searchQuery, nonSearchVars>>

\* The text of the posts a search runs over.
PostTexts ==
    { [title |-> <<"a">>, content |-> <<>>, excerpt |-> <<>>, tags |-> <<>>],
      [title |-> <<"B">>, content |-> <<"a", "b">>, excerpt |-> <<>>, tags |-> <<<<"b">>>>],
      [title |-> <<>>, content |-> <<>>, excerpt |-> <<"b", " ", "b">>, tags |-> <<>>],
      [title |-> <<"b">>, content |-> <<>>, excerpt |-> <<>>, tags |-> <<<<"b">>, <<"B", "b">>>>] }

MaxSearchPosts == 2

\* The posts with the given texts; the later document is the newer.
TextCorpus(texts) ==
    [d \in DOMAIN texts |->
        [createdAt |-> d, avgRating |-> 0, viewCount |-> 0,
         title |-> texts[d].title, content |-> texts[d].content,
         excerpt |-> texts[d].excerpt, tags |-> texts[d].tags]]

SearchInit ==
    /\ \E n \in 0..MaxSearchPosts : \E texts \in [1..n -> PostTexts] :
          corpus = TextCorpus(texts)
    /\ sortBy = "newest"
    /\ pageSize = 0
    /\ pages = <<>>
    /\ searchQuery \in Strings(MaxQueryLen)
    /\ searchResult = [done |-> FALSE, posts |-> <<>>]

\* No search is running.
SearchIdle ==
    /\ searchQuery = <<>>
    /\ searchResult = [done |-> FALSE, posts |-> <<>>]

SearchNext == SearchPostsCall

\* --------------------------------------------------------- posts by tag
\* limit(50)
TagLimit == 50

MaxTagPosts == 53

TagArgs == {<<"a">>, <<"b">>}

\* where('tags', 'array-contains', tag)
ArrayContains(tags, tag) == \E i \in DOMAIN tags : tags[i] = tag

\* orderBy('createdAt', 'desc') over a set of documents; documents created
\* at the same time follow each other by document id, descending.
OrderByCreatedAtDesc(docs) ==
    LET rank == [d \in docs |-> Cardinality({e \in docs : Precedes("newest", e, d)})]
    IN  [i \in 1..Cardinality(docs) |-> CHOOSE d \in docs : rank[d] = i - 1]

\* A bug: the last documents of the order are kept, not the first.
LimitFromEnd(docs, k) == SubSeq(docs, Len(docs) - Min(k, Len(docs)) + 1, Len(docs))

\* limit(k)
Limit(docs, k) == SubSeq(docs, 1, Min(k, Len(docs)))

\* getPostsByTag(tag): snapshot.forEach pushes the documents in query order.
GetPostsByTag(tag) ==
    Limit(OrderByCreatedAtDesc({d \in DocIds : ArrayContains(corpus[d].tags, tag)}),
          TagLimit)

GetPostsByTagCall ==
    /\ ~tagResult.done
    /\ tagResult' = [done |-> TRUE, posts |-> GetPostsByTag(tagArg)]
    /\ UNCHANGED <<tagArg, nonTagVars>>

\* A corpus of n tagged posts: all tagged alike, nearly all tagged alike, or
\* tagged in turn; creation times repeat only in a scattered corpus.
TagCorpus(n, shape) ==
    [d \in 1..n |->
        [avgRating |-> 0, viewCount |-> 0, title |-> <<>>, content |-> <<>>,
         excerpt |-> <<>>,
         createdAt |-> CASE shape = "ordered" -> d
                         [] shape = "reversed" -> n + 1 - d
                         [] OTHER -> (3 * d) % (n + 1),
         tags |-> CASE shape = "ordered" -> << <<"a">> >>
                    [] shape = "reversed" ->
                         IF d % 26 = 0 THEN << <<"b">> >> ELSE << <<"b">>, <<"a">> >>
                    [] OTHER ->
                         IF d % 3 = 0 THEN <<>>
                         ELSE IF d % 3 = 1 THEN << <<"a">> >>
                         ELSE << <<"a">>, <<"b">> >>]]

TagInit ==
    /\ \E n \in 0..MaxTagPosts, shape \in Shapes : corpus = TagCorpus(n, shape)
    /\ sortBy = "newest"
    /\ pageSize = 0
    /\ pages = <<>>
    /\ tagArg \in TagArgs
    /\ tagResult = [done |-> FALSE, posts |-> <<>>]

\* No tag query is running.
TagIdle ==
    /\ tagArg = <<>>
    /\ tagResult = [done |-> FALSE, posts |-> <<>>]

TagNext == GetPostsByTagCall

\* ------------------------------------------------------------ validation
\* const MAX_SIZE = 500 * 1024 * 1024
MAX_SIZE == 500 * 1024 * 1024

ALLOWED_IMAGE_TYPES == <<"image/jpeg", "image/jpg", "image/png", "image/webp", "image/gif">>

ALLOWED_VIDEO_TYPES == <<"video/mp4", "video/mkv", "video/webm", "video/mov", "video/avi">>

\* [...ALLOWED_IMAGE_TYPES, ...ALLOWED_VIDEO_TYPES]
ALLOWED_TYPES == ALLOWED_IMAGE_TYPES \o ALLOWED_VIDEO_TYPES

\* Array.prototype.includes
ArrayIncludes(array, x) == \E i \in DOMAIN array : array[i] = x

\* A bug: a file of exactly the maximum size is refused.
AtLeastMaxSize(size) == size >= MAX_SIZE

\* file.size > MAX_SIZE
ExceedsMaxSize(size) == size > MAX_SIZE

\* validateFile(file): the size is looked at first, then the type.
ValidateFile(f) ==
    IF ExceedsMaxSize(f.size)
    THEN [valid |-> FALSE, error |-> "File size exceeds 500MB limit"]
    ELSE IF ~ArrayIncludes(ALLOWED_TYPES, f.type)
    THEN [valid |-> FALSE, error |-> "File type not supported"]
    ELSE [valid |-> TRUE, error |-> ""]

ValidateFileCall ==
    /\ ~verdict.done
    /\ verdict' = [done |-> TRUE, result |-> ValidateFile(file)]
    /\ UNCHANGED <<file, hookVerdict, nonValidateVars>>

\* useMediaUpload's DEFAULT_OPTIONS, the fields validateFiles reads.
DEFAULT_OPTIONS ==
    [maxFiles |-> 10,
     maxFileSize |-> 500 * 1024 * 1024,
     allowedTypes |-> <<"image/jpeg", "image/jpg", "image/png", "image/webp",
                        "image/gif", "video/mp4", "video/webm", "video/quicktime",
                        "video/x-msvideo">>]

\* validateFiles(files) of useMediaUpload: the type is looked at first, then
\* the size; a refused file adds an error and is left out of `valid`.
RECURSIVE ValidateFiles(_, _)
ValidateFiles(files, opts) ==
    IF files = <<>> THEN [valid |-> <<>>, errors |-> <<>>]
    ELSE LET f == Head(files)
             rest == ValidateFiles(Tail(files), opts)
         IN  IF ~ArrayIncludes(opts.allowedTypes, f.type)
             THEN [rest EXCEPT !.errors = <<"Unsupported file type">> \o @]
             ELSE IF f.size > opts.maxFileSize
             THEN [rest EXCEPT !.errors = <<"File size exceeds limit">> \o @]
             ELSE [rest EXCEPT !.valid = <<f>> \o @]

\* validateFiles([file]), as addFiles calls it, in a hook made with no
\* options: opts = DEFAULT_OPTIONS.
ValidateFilesCall ==
    /\ ~hookVerdict.done
    /\ hookVerdict' = [done |-> TRUE] @@ ValidateFiles(<<file>>, DEFAULT_OPTIONS)
    /\ UNCHANGED <<file, verdict, nonValidateVars>>

\* File.type values: the types validateFile names, the other video types the
\* upload hook names, and types and non-types no list names.
FileTypes ==
    { ALLOWED_TYPES[i] : i \in DOMAIN ALLOWED_TYPES }
        \cup {"video/quicktime", "video/x-msvideo", "text/plain", "image/svg+xml",
              "IMAGE/PNG", ""}

\* File.size values, in bytes: around the limit and far from it.
FileSizes ==
    {0, 1, 499 * 1024 * 1024, MAX_SIZE - 1, MAX_SIZE, MAX_SIZE + 1, 501 * 1024 * 1024}

ValidateInit ==
    /\ file \in [size : FileSizes, type : FileTypes]
    /\ verdict = [done |-> FALSE, result |-> [valid |-> FALSE, error |-> ""]]
    /\ hookVerdict = [done |-> FALSE, valid |-> <<>>, errors |-> <<>>]

\* No file is being validated.
ValidateIdle ==
    /\ file = [size |-> 0, type |-> ""]
    /\ verdict = [done |-> FALSE, result |-> [valid |-> FALSE, error |-> ""]]
    /\ hookVerdict = [done |-> FALSE, valid |-> <<>>, errors |-> <<>>]

ValidateNext ==
    \/ ValidateFileCall
    \/ ValidateFilesCall

\* ---------------------------------------------------------------- storage
Users == {"u1", "u2"}

\* postId absent (undefined, or the empty string, which is as falsy)
NoPost == ""

PostIds == {"p1"}

\* Date.now() at the first call of the model, in milliseconds
StartTime == 1

\* `${timestamp}-${file.name}`
FileName(timestamp, name) == <<timestamp, name>>

\* postId ? `posts/${postId}/${fileName}` : `temp/${userId}/${fileName}`
StoragePath(userId, postId, fileName) ==
    IF postId # NoPost
    THEN [dir |-> "posts", owner |-> postId, name |-> fileName]
    ELSE [dir |-> "temp", owner |-> userId, name |-> fileName]

\* uploadBytes(ref, file): the object at the path is created or replaced.
Put(objs, path, content, time) ==
    {o \in objs : o.path # path}
        \cup {[path |-> path, content |-> content, timeCreated |-> time]}

\* deleteObject(ref)
Remove(objs, path) == {o \in objs : o.path # path}

Exists(objs, path) == \E o \in objs : o.path = path

\* uploadFile's MediaItem; the download URL names the object's path.
MediaItemOf(f, fileName, path) ==
    [id |-> fileName, url |-> path, filename |-> f.name]

StoreIdle == objects = {}

\* --------------------------------------------------------------- uploads
MaxFiles == 3

\* The files a user picks; a file may be picked twice.
UploadFiles ==
    { [name |-> "f", content |-> "x"],
      [name |-> "g", content |-> "y"] }

FileLists(n) == UNION {[1..k -> UploadFiles] : k \in 0..n}

\* The timestamps of one synchronous files.map(...): the clock may tick
\* between two calls of Date.now().
Stamps(n) ==
    { s \in [1..n -> StartTime..(StartTime + n)] :
        /\ n > 0 => s[1] = StartTime
        /\ \A i \in 1..(n - 1) : s[i + 1] \in {s[i], s[i] + 1} }

UploadPath(i) ==
    StoragePath(upload.userId, upload.postId,
                FileName(upload.stamps[i], upload.files[i].name))

\* The MediaItem uploadFile returns for file i.
UploadedItem(i) ==
    MediaItemOf(upload.files[i], FileName(upload.stamps[i], upload.files[i].name),
                UploadPath(i))

\* Promise.all(uploadPromises) fulfilled: the values, in the order of the
\* promises, that is of the files.
AllValues(pcs) == [i \in DOMAIN pcs |-> UploadedItem(i)]

\* A bug: Promise.allSettled in the place of Promise.all, the batch is
\* fulfilled once every upload has settled.
PromiseAllSettled(state, pcs) ==
    IF state # "pending" THEN [state |-> state, result |-> upload.result]
    ELSE IF \A i \in DOMAIN pcs : pcs[i] \in {"fulfilled", "rejected"}
    THEN [state |-> "fulfilled", result |-> AllValues(pcs)]
    ELSE [state |-> "pending", result |-> <<>>]

\* Promise.all: rejected as soon as one promise is, fulfilled when all are.
PromiseAll(state, pcs) ==
    IF state # "pending" THEN [state |-> state, result |-> upload.result]
    ELSE IF \E i \in DOMAIN pcs : pcs[i] = "rejected"
    THEN [state |-> "rejected", result |-> <<>>]
    ELSE IF \A i \in DOMAIN pcs : pcs[i] = "fulfilled"
    THEN [state |-> "fulfilled", result |-> AllValues(pcs)]
    ELSE [state |-> "pending", result |-> <<>>]

\* What an upload's settling makes of the batch.
Settled(pcs) ==
    LET all == PromiseAll(upload.state, pcs)
    IN  [upload EXCEPT !.pcs = pcs, !.state = all.state, !.result = all.result]

\* uploadMultipleFiles(files, userId, postId, onProgress): files.map starts
\* every uploadFile, each running up to its `await uploadBytes`.
UploadMultipleFiles(files, userId, postId, stamps) ==
    /\ upload.state = "idle"
    /\ LET pcs == [i \in DOMAIN files |-> "uploadBytes"]
           call == [state |-> "pending", files |-> files, userId |-> userId,
                    postId |-> postId, stamps |-> stamps, pcs |-> pcs,
                    result |-> <<>>]
       IN  upload' = IF files = <<>>
                     THEN [call EXCEPT !.state = "fulfilled"]
                     ELSE call
    /\ UNCHANGED <<objects, progress, nonUploadVars>>

UploadMultipleFilesCall ==
    \E files \in FileLists(MaxFiles), userId \in {"u1"}, postId \in PostIds \cup {NoPost} :
        \E stamps \in Stamps(Len(files)) :
            UploadMultipleFiles(files, userId, postId, stamps)

Running(i, pc) ==
    /\ upload.state # "idle"
    /\ i \in DOMAIN upload.pcs
    /\ upload.pcs[i] = pc

\* await uploadBytes(storageRef, file) resolves: the object is stored.
UploadBytesResolves(i) ==
    /\ Running(i, "uploadBytes")
    /\ objects' = Put(objects, UploadPath(i), upload.files[i].content, upload.stamps[i])
    /\ upload' = [upload EXCEPT !.pcs[i] = "getDownloadURL"]
    /\ UNCHANGED <<progress, nonUploadVars>>

\* await uploadBytes rejects: uploadFile rethrows.
UploadBytesRejects(i) ==
    /\ Running(i, "uploadBytes")
    /\ upload' = Settled([upload.pcs EXCEPT ![i] = "rejected"])
    /\ UNCHANGED <<objects, progress, nonUploadVars>>

\* await getDownloadURL resolves: uploadFile returns its item, and
\* onProgress?.(index + 1, files.length) is called.
GetDownloadURLResolves(i) ==
    /\ Running(i, "getDownloadURL")
    /\ progress' = Append(progress, <<i, Len(upload.files)>>)
    /\ upload' = Settled([upload.pcs EXCEPT ![i] = "fulfilled"])
    /\ UNCHANGED <<objects, nonUploadVars>>

\* await getDownloadURL rejects: uploadFile rethrows.
GetDownloadURLRejects(i) ==
    /\ Running(i, "getDownloadURL")
    /\ upload' = Settled([upload.pcs EXCEPT ![i] = "rejected"])
    /\ UNCHANGED <<objects, progress, nonUploadVars>>

UploadIdle == upload = [state |-> "idle"] /\ progress = <<>>

UploadNext ==
    \/ UploadMultipleFilesCall
    \/ \E i \in 1..MaxFiles : UploadBytesResolves(i)
    \/ \E i \in 1..MaxFiles : UploadBytesRejects(i)
    \/ \E i \in 1..MaxFiles : GetDownloadURLResolves(i)
    \/ \E i \in 1..MaxFiles : GetDownloadURLRejects(i)

\* ------------------------------------------------------- moving to a post
MaxMoved == 2

\* What a temp item was uploaded as: two uploads of one file name at
\* different times, and an upload of another name.
TempUploads ==
    { [stamp |-> StartTime - 2, name |-> "f", content |-> "x"],
      [stamp |-> StartTime - 1, name |-> "f", content |-> "y"],
      [stamp |-> StartTime - 1, name |-> "g", content |-> "z"] }

TempPath(userId, id) == [dir |-> "temp", owner |-> userId, name |-> id]

\* The bucket before the move: the temp uploads of both users.
TempBucket ==
    { [path |-> TempPath(u, FileName(t.stamp, t.name)), content |-> t.content,
       timeCreated |-> t.stamp] : u \in Users, t \in TempUploads }

\* The MediaItems of a user's temp uploads.
TempItems(userId) ==
    { MediaItemOf(t, FileName(t.stamp, t.name), TempPath(userId, FileName(t.stamp, t.name))) :
        t \in TempUploads }

\* What the server answers a GET of a download URL with when it does not
\* answer with the object.
ErrorBody == "error"

ContentAt(objs, path) == (CHOOSE o \in objs : o.path = path).content

\* The current item of the loop.
MoveItem == move.tempFiles[move.i]

\* const tempPath = `temp/${userId}/${file.id}`
MoveTempPath == TempPath(move.userId, MoveItem.id)

\* uploadFile(fileObj, userId, postId): fileObj is named file.filename.
MoveNewName == FileName(move.stamp, MoveItem.filename)

MoveNewPath == StoragePath(move.userId, move.postId, MoveNewName)

\* moveFilesToPost(tempFiles, userId, postId): up to the first await, or to
\* the return when there is nothing to move.
MoveFilesToPost(tempFiles, userId, postId) ==
    /\ move.state = "idle"
    /\ move' = [state |-> IF tempFiles = <<>> THEN "fulfilled" ELSE "running",
                tempFiles |-> tempFiles, userId |-> userId, postId |-> postId,
                i |-> 1, pc |-> "fetch", blob |-> "", stamp |-> StartTime,
                movedFiles |-> <<>>]
    /\ UNCHANGED <<objects, nonMoveVars>>

MoveFilesToPostCall ==
    \E n \in 0..MaxMoved, userId \in {"u1"}, postId \in PostIds :
        \E tempFiles \in [1..n -> TempItems(userId)] :
            MoveFilesToPost(tempFiles, userId, postId)

MoveAt(pc) == move.state = "running" /\ move.pc = pc

\* await fetch(file.url) resolves, with the object or with an error status:
\* fetch rejects on network failures only, and the response is not looked at.
MoveFetchResolves ==
    /\ MoveAt("fetch")
    /\ \E ok \in BOOLEAN :
          /\ ok => Exists(objects, MoveItem.url)
          /\ move' = [move EXCEPT !.pc = "blob",
                                  !.blob = IF ok THEN ContentAt(objects, MoveItem.url)
                                           ELSE ErrorBody]
    /\ UNCHANGED <<objects, nonMoveVars>>

\* await response.blob() resolves; uploadFile(fileObj, userId, postId) runs
\* up to its `await uploadBytes`, reading the clock, which has not gone back.
MoveBlobResolves ==
    /\ MoveAt("blob")
    /\ \E t \in {move.stamp, move.stamp + 1} :
          move' = [move EXCEPT !.pc = "uploadBytes", !.stamp = t]
    /\ UNCHANGED <<objects, nonMoveVars>>

\* await uploadBytes resolves
MoveUploadBytesResolves ==
    /\ MoveAt("uploadBytes")
    /\ objects' = Put(objects, MoveNewPath, move.blob, move.stamp)
    /\ move' = [move EXCEPT !.pc = "getDownloadURL"]
    /\ UNCHANGED nonMoveVars

\* await getDownloadURL resolves: movedFiles.push(newFile), and deleteFile
\* runs up to its `await deleteObject`.
MoveGetDownloadURLResolves ==
    /\ MoveAt("getDownloadURL")
    /\ move' = [move EXCEPT
                  !.pc = "deleteObject",
                  !.movedFiles = Append(@, MediaItemOf([name |-> MoveItem.filename],
                                                       MoveNewName, MoveNewPath))]
    /\ UNCHANGED <<objects, nonMoveVars>>

\* await deleteObject resolves: the next item, or return movedFiles.
MoveDeleteResolves ==
    /\ MoveAt("deleteObject")
    /\ Exists(objects, MoveTempPath)
    /\ objects' = Remove(objects, MoveTempPath)
    /\ move' = IF move.i = Len(move.tempFiles)
               THEN [move EXCEPT !.state = "fulfilled"]
               ELSE [move EXCEPT !.i = @ + 1, !.pc = "fetch"]
    /\ UNCHANGED nonMoveVars

\* The awaited call rejects (a network failure, a refusal, no such object):
\* the catch logs and rethrows.
MoveAwaitRejects ==
    /\ move.state = "running"
    /\ move' = [move EXCEPT !.state = "rejected"]
    /\ UNCHANGED <<objects, nonMoveVars>>

MoveInit == move = [state |-> "idle"] /\ objects = TempBucket

MoveIdle == move = [state |-> "idle"]

MoveNext ==
    \/ MoveFilesToPostCall
    \/ MoveFetchResolves
    \/ MoveBlobResolves
    \/ MoveUploadBytesResolves
    \/ MoveGetDownloadURLResolves
    \/ MoveDeleteResolves
    \/ MoveAwaitRejects

\* ------------------------------------------------------------- temp sweep
MaxTempObjects == 3

\* const oneDayMs = 24 * 60 * 60 * 1000
OneDayMs == 24 * 60 * 60 * 1000

\* const now = Date.now()
SweepNow == 2 * OneDayMs

\* How long before the sweep an object was created: just now, and around a
\* day ago.
Ages == {0, OneDayMs - 1, OneDayMs, OneDayMs + 1}

\* The objects of a bucket: up to MaxTempObjects in the temp folder of the
\* first user, and old objects in another user's temp folder and in a post's.
SweepObject(dir, owner, k, age) ==
    [path |-> [dir |-> dir, owner |-> owner, name |-> FileName(SweepNow - age, k)],
     content |-> "x", timeCreated |-> SweepNow - age]

SweepBuckets ==
    { {SweepObject("temp", "u1", k, ages[k]) : k \in DOMAIN ages}
          \cup {SweepObject("temp", "u2", 1, OneDayMs + 1),
                SweepObject("posts", "p1", 1, OneDayMs + 1)} :
        ages \in UNION {[1..n -> Ages] : n \in 0..MaxTempObjects} }

\* listAll(ref(storage, `temp/${userId}`)).items, as full paths, in the
\* order of their names.
RECURSIVE InNameOrder(_)
InNameOrder(paths) ==
    IF paths = {} THEN <<>>
    ELSE LET first == CHOOSE p \in paths :
                          \A q \in paths : p.name[2] <= q.name[2]
         IN  <<first>> \o InNameOrder(paths \ {first})

ListFiles(objs, userId) ==
    InNameOrder({o.path : o \in {x \in objs : x.path.dir = "temp" /\ x.path.owner = userId}})

TimeCreated(objs, path) == (CHOOSE o \in objs : o.path = path).timeCreated

\* A bug: an object of exactly one day is deleted too.
AtLeastOneDay(now, fileTime) == now - fileTime >= OneDayMs

\* now - fileTime > oneDayMs
OlderThanOneDay(now, fileTime) == now - fileTime > OneDayMs

\* The for loop goes on to the next path, or the function returns.
NextFile(s) ==
    IF s.i = Len(s.files)
    THEN [s EXCEPT !.state = "fulfilled"]
    ELSE [s EXCEPT !.i = @ + 1, !.pc = "getMetadata", !.examined = @ \cup {s.i + 1}]

\* A bug: a failure on one object ends the sweep.
EndSweep(s) == [s EXCEPT !.state = "fulfilled", !.failed = @ \cup {s.i}]

\* The inner catch: a warning, and the loop continues.
InnerCatch(s) == NextFile([s EXCEPT !.failed = @ \cup {s.i}])

\* cleanupTempFiles(userId), up to `await listFiles(tempPath)`
CleanupTempFiles(userId) ==
    /\ sweep.state = "idle"
    /\ sweep' = [state |-> "running", userId |-> userId, pc |-> "listAll",
                 listed |-> FALSE, files |-> <<>>, i |-> 0, now |-> 0,
                 examined |-> {}, failed |-> {}, before |-> objects]
    /\ UNCHANGED <<objects, nonSweepVars>>

CleanupTempFilesCall == \E userId \in Users : CleanupTempFiles(userId)

SweepAt(pc) == sweep.state = "running" /\ sweep.pc = pc

\* await listFiles resolves; now = Date.now(); the first getFileMetadata
ListAllResolves ==
    /\ SweepAt("listAll")
    /\ LET files == ListFiles(objects, sweep.userId)
           s == [sweep EXCEPT !.listed = TRUE, !.files = files, !.now = SweepNow]
       IN  sweep' = NextFile(s)
    /\ UNCHANGED <<objects, nonSweepVars>>

\* await listFiles rejects: the outer catch logs and does not rethrow.
ListAllRejects ==
    /\ SweepAt("listAll")
    /\ sweep' = [sweep EXCEPT !.state = "fulfilled"]
    /\ UNCHANGED <<objects, nonSweepVars>>

\* await getFileMetadata resolves: the age is tested and the object deleted
\* or passed over.
GetMetadataResolves ==
    /\ SweepAt("getMetadata")
    /\ Exists(objects, sweep.files[sweep.i])
    /\ sweep' = IF OlderThanOneDay(sweep.now, TimeCreated(objects, sweep.files[sweep.i]))
                THEN [sweep EXCEPT !.pc = "deleteObject"]
                ELSE NextFile(sweep)
    /\ UNCHANGED <<objects, nonSweepVars>>

\* await getFileMetadata rejects
GetMetadataRejects ==
    /\ SweepAt("getMetadata")
    /\ sweep' = InnerCatch(sweep)
    /\ UNCHANGED <<objects, nonSweepVars>>

\* await deleteFile resolves
DeleteObjectResolves ==
    /\ SweepAt("deleteObject")
    /\ Exists(objects, sweep.files[sweep.i])
    /\ objects' = Remove(objects, sweep.files[sweep.i])
    /\ sweep' = NextFile(sweep)
    /\ UNCHANGED nonSweepVars

\* await deleteFile rejects
DeleteObjectRejects ==
    /\ SweepAt("deleteObject")
    /\ sweep' = InnerCatch(sweep)
    /\ UNCHANGED <<objects, nonSweepVars>>

SweepInit == sweep = [state |-> "idle"] /\ objects \in SweepBuckets

SweepIdle == sweep = [state |-> "idle"]

SweepNext ==
    \/ CleanupTempFilesCall
    \/ ListAllResolves
    \/ ListAllRejects
    \/ GetMetadataResolves
    \/ GetMetadataRejects
    \/ DeleteObjectResolves
    \/ DeleteObjectRejects

\* ---------------------------------------------------- the rating section
nonUiVars == <<catalogueVars, mediaVars, lifeVars, viewVars, formVars, authVars>>

\* A bug: a rejected batch has written what it had staged.
AppliedBatch(rows, c) ==
    rows \cup {[id |-> c, postId |-> calls[c].postId,
                authorId |-> calls[c].authorId, rating |-> calls[c].rating]}

\* The ratings collection after a batch.commit() that rejected: a batch is
\* applied whole or not at all.
RejectedBatch(rows, c) == rows

\* An await of addOrUpdateRating rejects: the getDocs of the existing-rating
\* query, the getPostRatings or the updateDoc of updatePostRating, or the
\* batch.commit(). Each catch logs and rethrows, so the call rejects.
AddOrUpdateRatingRejects(c) ==
    /\ calls[c].op = "submit"
    /\ calls[c].pc \in {"query", "read", "write", "commit"}
    /\ ratings' = IF calls[c].pc = "commit" THEN RejectedBatch(ratings, c) ELSE ratings
    /\ Settle(c, "failed")
    /\ UNCHANGED <<posts, nextId, overlaps, nonRatingVars>>

\* The call handleRatingSubmit is waiting for or has last looked at.
UiCall == nextId - 1

\* `submitting`: the handler has not finished with the call it made.
Submitting == ui.call < UiCall \/ ui.state = "reading"

\* The stars clicked: the first and the last of the five.
ClickedStars == {MinStars, MaxStars}

\* handleRatingSubmit(rating), a star having been clicked:
\* setSubmitting(true) and addOrUpdateRating(post.id, rating, user.uid), up
\* to its first await.
HandleRatingSubmit ==
    /\ ~Submitting
    /\ \E p \in Posts, a \in Authors, r \in ClickedStars :
          Invoke("submit", p, a, r)

\* await addOrUpdateRating resolves: setUserRating(rating), and
\* getPostRatings(post.id) is called.
HandleRatingSubmitSaved ==
    /\ ui.call < UiCall
    /\ calls[UiCall].pc = "done"
    /\ ui' = [ui EXCEPT !.state = "reading", !.call = UiCall]
    /\ UNCHANGED <<ratingVars, nonUiVars>>

\* What the handler passes to onRatingUpdate for the ratings it fetched:
\* Math.round(avgRating * 10) / 10 (kept in tenths) and ratings.length.
OnRatingUpdate(rows) ==
    IF Cardinality(rows) > 0
    THEN [avgRating |-> RoundTenths(SumRatings(rows), Cardinality(rows)),
          totalRatings |-> Cardinality(rows)]
    ELSE [avgRating |-> 0, totalRatings |-> 0]

\* await getPostRatings resolves: onRatingUpdate is called, setSubmitting(false).
HandleRatingSubmitShows ==
    /\ ui.state = "reading"
    /\ ui' = [ui EXCEPT !.state = "shown",
                        !.shown = OnRatingUpdate(PostRatings(calls[ui.call].postId))]
    /\ UNCHANGED <<ratingVars, nonUiVars>>

\* await addOrUpdateRating or await getPostRatings rejects: the catch logs,
\* nothing is shown, setSubmitting(false).
HandleRatingSubmitCatch ==
    /\ \/ ui.call < UiCall /\ calls[UiCall].pc = "failed"
       \/ ui.state = "reading"
    /\ ui' = [ui EXCEPT !.state = "failed", !.call = UiCall]
    /\ UNCHANGED <<ratingVars, nonUiVars>>

UiIdle ==
    ui = [state |-> "idle", call |-> 0,
          shown |-> [avgRating |-> 0, totalRatings |-> 0]]

\* Submissions from the rating section, one at a time.
RatingUiNext ==
    \/ HandleRatingSubmit
    \/ \E c \in DOMAIN calls : AddOrUpdateRatingQuery(c)
    \/ \E c \in DOMAIN calls : UpdatePostRatingRead(c)
    \/ \E c \in DOMAIN calls : UpdatePostRatingWrite(c)
    \/ \E c \in DOMAIN calls : BatchCommit(c)
    \/ \E c \in DOMAIN calls : AddOrUpdateRatingRejects(c)
    \/ HandleRatingSubmitSaved
    \/ HandleRatingSubmitShows
    \/ HandleRatingSubmitCatch

\* ------------------------------------------------------ posts and comments
MaxComments == 2

MaxRated == 1

\* The title a post is created with or edited to.
Titles == {"t1"}

nonLifeVars == <<pageVars, searchVars, tagVars, mediaVars, uiVars, formVars, authVars>>

\* addDoc(collection(db, 'posts'), {...postData, viewCount: 0, avgRating: 0,
\* totalRatings: 0, media: []}) resolves: a document under an id the
\* collection has not handed out before.
AddPostDoc(p, title) ==
    /\ created # Posts
    /\ p = CHOOSE id \in Posts \ created : TRUE
    /\ live' = live \cup {p}
    /\ created' = created \cup {p}
    /\ posts' = [posts EXCEPT ![p] = [avgRating |-> 0, totalRatings |-> 0]]
    /\ postDocs' = [postDocs EXCEPT ![p] = [viewCount |-> 0, title |-> title]]

\* createPost(postData, ...) of a caller other than the post form.
CreatePost ==
    /\ \E p \in Posts, title \in Titles : AddPostDoc(p, title)
    /\ UNCHANGED <<ratings, calls, nextId, order, overlaps, comments,
                   commentCalls, del, writes, nonLifeVars>>

\* addComment(postId, ...) for a post the caller has been shown, up to its
\* `await addDoc`: nothing looks the post up.
AddCommentCall ==
    /\ Len(commentCalls) < MaxComments
    /\ \E p \in created :
          commentCalls' = Append(commentCalls, [postId |-> p, pc |-> "addDoc"])
    /\ UNCHANGED <<ratingVars, live, created, comments, del, viewVars, nonLifeVars>>

\* await addDoc(collection(db, 'comments'), {postId, ...}) resolves.
AddCommentResolves(k) ==
    /\ commentCalls[k].pc = "addDoc"
    /\ comments' = comments \cup {[id |-> k, postId |-> commentCalls[k].postId]}
    /\ commentCalls' = [commentCalls EXCEPT ![k].pc = "done"]
    /\ UNCHANGED <<ratingVars, live, created, del, viewVars, nonLifeVars>>

\* await addDoc rejects: the catch rethrows.
AddCommentRejects(k) ==
    /\ commentCalls[k].pc = "addDoc"
    /\ commentCalls' = [commentCalls EXCEPT ![k].pc = "failed"]
    /\ UNCHANGED <<ratingVars, live, created, comments, del, viewVars, nonLifeVars>>

\* The reader who rates in these runs.
Raters == {"a1"}

\* addOrUpdateRating(postId, rating, authorId) for a post the caller has
\* been shown.
RatePostCall ==
    /\ nextId <= MaxRated
    /\ \E p \in created, a \in Raters : Invoke("submit", p, a, MaxStars)

\* updatePostRating: updateDoc(postRef, ...) of a post that has no document
\* rejects; the catches rethrow.
UpdatePostRatingNotFound(c) ==
    /\ calls[c].pc = "write"
    /\ calls[c].postId \notin live
    /\ Settle(c, "failed")
    /\ UNCHANGED <<ratings, posts, nextId, overlaps, nonRatingVars>>

\* No deletePost call has been made.
NoDelete ==
    [state |-> "idle", postId |-> "", pc |-> "", pending |-> {}, swallowed |-> FALSE]

\* deletePost(postId), up to the getDocs of the comments query.
DeletePostCall ==
    /\ del.state = "idle"
    /\ \E p \in created :
          del' = [state |-> "running", postId |-> p, pc |-> "comments",
                  pending |-> {}, swallowed |-> FALSE]
    /\ UNCHANGED <<ratingVars, live, created, comments, commentCalls, viewVars,
                   nonLifeVars>>

DeleteAt(pcs) == del.state = "running" /\ del.pc \in pcs

\* The deleteDoc calls Promise.all waits for, one per document of a snapshot.
DeletePromises(kind, snapshot) == {[kind |-> kind, id |-> d.id] : d \in snapshot}

\* await getDocs(commentsQuery) resolves: a deleteDoc is issued for every
\* comment of the snapshot, and Promise.all awaited.
DeletePostCommentsQuery ==
    /\ DeleteAt({"comments"})
    /\ LET snapshot == {d \in comments : d.postId = del.postId}
       IN  del' = [del EXCEPT !.pc = IF snapshot = {} THEN "ratings" ELSE "deleteComments",
                              !.pending = DeletePromises("comment", snapshot)]
    /\ UNCHANGED <<ratingVars, live, created, comments, commentCalls, viewVars,
                   nonLifeVars>>

\* await getDocs(ratingsQuery) resolves: the same for the post's ratings.
DeletePostRatingsQuery ==
    /\ DeleteAt({"ratings"})
    /\ LET snapshot == {d \in ratings : d.postId = del.postId}
       IN  del' = [del EXCEPT !.pc = IF snapshot = {} THEN "post" ELSE "deleteRatings",
                              !.pending = DeletePromises("rating", snapshot)]
    /\ UNCHANGED <<ratingVars, live, created, comments, commentCalls, viewVars,
                   nonLifeVars>>

\* A bug: a failure of the cleanup ends deletePost with the error.
RethrowSubError(d) == [d EXCEPT !.state = "failed", !.swallowed = TRUE]

\* catch (subError): a warning is logged and the function goes on to
\* `await deleteDoc(postRef)`.
SubError(d) == [d EXCEPT !.pc = "post", !.swallowed = TRUE]

\* One deleteDoc of a Promise.all resolves: the document is gone. When it
\* was the last the Promise.all waited for, the function goes on.
DeleteDocResolves(x) ==
    /\ x \in del.pending
    /\ comments' = IF x.kind = "comment" THEN {d \in comments : d.id # x.id}
                   ELSE comments
    /\ ratings' = IF x.kind = "rating" THEN {d \in ratings : d.id # x.id}
                  ELSE ratings
    /\ del' = [del EXCEPT
                 !.pending = @ \ {x},
                 !.pc = IF del.state = "running" /\ del.pending = {x}
                        THEN (IF @ = "deleteComments" THEN "ratings"
                              ELSE IF @ = "deleteRatings" THEN "post" ELSE @)
                        ELSE @]
    /\ UNCHANGED <<posts, calls, nextId, order, overlaps, live, created,
                   commentCalls, viewVars, nonLifeVars>>

\* One deleteDoc of a Promise.all rejects: the Promise.all rejects with it,
\* once, and the deleteDocs it was still waiting for run on.
DeleteDocRejects(x) ==
    /\ x \in del.pending
    /\ del' = IF DeleteAt({"deleteComments", "deleteRatings"})
              THEN SubError([del EXCEPT !.pending = @ \ {x}])
              ELSE [del EXCEPT !.pending = @ \ {x}]
    /\ UNCHANGED <<ratingVars, live, created, comments, commentCalls, viewVars,
                   nonLifeVars>>

\* await getDocs rejects, for the comments or for the ratings.
DeletePostQueryRejects ==
    /\ DeleteAt({"comments", "ratings"})
    /\ del' = SubError(del)
    /\ UNCHANGED <<ratingVars, live, created, comments, commentCalls, viewVars,
                   nonLifeVars>>

\* await deleteDoc(postRef) resolves: the post's document is gone.
DeletePostResolves ==
    /\ DeleteAt({"post"})
    /\ live' = live \ {del.postId}
    /\ del' = [del EXCEPT !.state = "done"]
    /\ UNCHANGED <<ratingVars, created, comments, commentCalls, viewVars,
                   nonLifeVars>>

\* await deleteDoc(postRef) rejects: the outer catch logs and rethrows.
DeletePostRejects ==
    /\ DeleteAt({"post"})
    /\ del' = [del EXCEPT !.state = "failed"]
    /\ UNCHANGED <<ratingVars, live, created, comments, commentCalls, viewVars,
                   nonLifeVars>>

\* Every post of the rating model has its document, and nobody comments or
\* deletes.
LifeIdle ==
    /\ live = Posts
    /\ created = Posts
    /\ comments = {}
    /\ commentCalls = <<>>
    /\ del = NoDelete

\* An empty posts collection.
LifeInit ==
    /\ live = {}
    /\ created = {}
    /\ comments = {}
    /\ commentCalls = <<>>
    /\ del = NoDelete

LifeNext ==
    \/ CreatePost
    \/ AddCommentCall
    \/ \E k \in DOMAIN commentCalls : AddCommentResolves(k)
    \/ \E k \in DOMAIN commentCalls : AddCommentRejects(k)
    \/ RatePostCall
    \/ \E c \in DOMAIN calls : AddOrUpdateRatingQuery(c)
    \/ \E c \in DOMAIN calls : UpdatePostRatingRead(c)
    \/ \E c \in DOMAIN calls : UpdatePostRatingWrite(c)
    \/ \E c \in DOMAIN calls : UpdatePostRatingNotFound(c)
    \/ \E c \in DOMAIN calls : BatchCommit(c)
    \/ DeletePostCall
    \/ DeletePostCommentsQuery
    \/ DeletePostRatingsQuery
    \/ \E x \in del.pending : DeleteDocResolves(x)
    \/ \E x \in del.pending : DeleteDocRejects(x)
    \/ DeletePostQueryRejects
    \/ DeletePostResolves
    \/ DeletePostRejects

\* ------------------------------------------------------------ view counts
MaxWrites == 3

nonViewVars == <<catalogueVars, mediaVars, uiVars, lifeVars, formVars, authVars>>

\* A bug: the write replaces the document, and the fields it does not name
\* start over.
SetDoc(fields, updates) ==
    [k \in DOMAIN fields |-> IF k \in DOMAIN updates THEN updates[k]
                             ELSE IF k = "viewCount" THEN 0 ELSE fields[k]]

\* updateDoc(ref, updates): the named fields are written, the others kept.
UpdateDoc(fields, updates) ==
    [k \in DOMAIN fields |-> IF k \in DOMAIN updates THEN updates[k] ELSE fields[k]]

\* increment(n): the server adds n to the value the field has when the write
\* is applied.
Increment(value, n) == value + n

\* incrementViewCount(postId), up to its `await updateDoc`.
IncrementViewCountCall ==
    /\ Len(writes) < MaxWrites
    /\ \E p \in live :
          writes' = Append(writes, [op |-> "view", postId |-> p, title |-> "",
                                    pc |-> "updateDoc"])
    /\ UNCHANGED <<postDocs, nonViewVars>>

\* updatePost(postId, updates), up to its `await updateDoc`: the updates
\* are fields of the post's input (title, content, excerpt, tags), media or
\* published, never viewCount.
UpdatePostCall ==
    /\ Len(writes) < MaxWrites
    /\ \E p \in live, title \in Titles :
          writes' = Append(writes, [op |-> "update", postId |-> p, title |-> title,
                                    pc |-> "updateDoc"])
    /\ UNCHANGED <<postDocs, nonViewVars>>

\* await updateDoc(docRef, {viewCount: increment(1)}) resolves.
IncrementViewCountResolves(k) ==
    /\ writes[k].op = "view" /\ writes[k].pc = "updateDoc"
    /\ writes[k].postId \in live
    /\ postDocs' = [postDocs EXCEPT ![writes[k].postId] =
                  UpdateDoc(@, [viewCount |-> Increment(@.viewCount, 1)])]
    /\ writes' = [writes EXCEPT ![k].pc = "done"]
    /\ UNCHANGED nonViewVars

\* await updateDoc(docRef, {...updates, updatedAt}) resolves.
UpdatePostResolves(k) ==
    /\ writes[k].op = "update" /\ writes[k].pc = "updateDoc"
    /\ writes[k].postId \in live
    /\ postDocs' = [postDocs EXCEPT ![writes[k].postId] =
                  UpdateDoc(@, [title |-> writes[k].title])]
    /\ writes' = [writes EXCEPT ![k].pc = "done"]
    /\ UNCHANGED nonViewVars

\* await updateDoc rejects (always so when the post has no document): the
\* catch rethrows and nothing is written.
UpdateDocRejects(k) ==
    /\ writes[k].pc = "updateDoc"
    /\ writes' = [writes EXCEPT ![k].pc = "failed"]
    /\ UNCHANGED <<postDocs, nonViewVars>>

\* The posts as createPost made them, under an earlier title.
ViewIdle ==
    /\ postDocs = [p \in Posts |-> [viewCount |-> 0, title |-> "t0"]]
    /\ writes = <<>>

\* Views and edits of the posts, and a rating recomputation, in any order.
ViewNext ==
    \/ IncrementViewCountCall
    \/ UpdatePostCall
    \/ \E k \in DOMAIN writes : IncrementViewCountResolves(k)
    \/ \E k \in DOMAIN writes : UpdatePostResolves(k)
    \/ \E k \in DOMAIN writes : UpdateDocRejects(k)
    \/ RatePostCall
    \/ \E c \in DOMAIN calls : AddOrUpdateRatingQuery(c)
    \/ \E c \in DOMAIN calls : UpdatePostRatingRead(c)
    \/ \E c \in DOMAIN calls : UpdatePostRatingWrite(c)
    \/ \E c \in DOMAIN calls : BatchCommit(c)

\* ------------------------------------------------------------ the post form
MaxSubmits == 2

MaxFormFiles == 1

nonFormVars ==
    <<pageVars, searchVars, tagVars, validateVars, move, sweep, uiVars, authVars>>

\* The form is open on a new post (no existingPost) and has not been
\* submitted.
NoSubmit ==
    [state |-> "idle", pc |-> "", postId |-> NoPost, files |-> <<>>,
     title |-> "", attempts |-> 0]

\* onSubmit(data) of a form without existingPost: setIsLoading(true) and
\* createPost(data, ...), up to its `await addDoc`. A form whose submission
\* failed is still open, with the same selected files.
OnSubmit ==
    /\ form.state \in {"idle", "failed"}
    /\ form.attempts < MaxSubmits
    /\ \E title \in Titles, files \in FileLists(MaxFormFiles) :
          /\ form.attempts > 0 => files = form.files
          /\ form' = [form EXCEPT !.state = "running", !.pc = "createPost",
                                  !.postId = NoPost, !.files = files,
                                  !.title = title, !.attempts = @ + 1]
    /\ UNCHANGED <<ratingVars, lifeVars, viewVars, objects, uploadVars, nonFormVars>>

FormAt(pc) == form.state = "running" /\ form.pc = pc

\* postId = await createPost(...) resolves; with files selected,
\* uploadMultipleFiles is next, else updatePost.
OnSubmitCreated ==
    /\ FormAt("createPost")
    /\ \E p \in Posts :
          /\ AddPostDoc(p, form.title)
          /\ form' = [form EXCEPT !.postId = p,
                                  !.pc = IF Len(form.files) > 0 THEN "upload"
                                         ELSE "updatePost"]
    /\ UNCHANGED <<ratings, calls, nextId, order, overlaps, comments, commentCalls,
                   del, writes, objects, uploadVars, nonFormVars>>

\* uploadMultipleFiles(selectedFiles, user.uid, postId) is called.
OnSubmitUploads ==
    /\ FormAt("upload")
    /\ \E stamps \in Stamps(Len(form.files)) :
          UploadMultipleFiles(form.files, "u1", form.postId, stamps)

\* await uploadMultipleFiles settles: fulfilled, updatePost(postId, {...data,
\* media}) is called; rejected, the catch alerts and the form stays open.
\* The handler's next step is taken here once every upload of the batch has
\* settled.
OnSubmitUploaded ==
    /\ FormAt("upload")
    /\ upload.state \in {"fulfilled", "rejected"}
    /\ \A i \in DOMAIN upload.pcs : upload.pcs[i] \in {"fulfilled", "rejected"}
    /\ form' = IF upload.state = "fulfilled"
               THEN [form EXCEPT !.pc = "updatePost"]
               ELSE [form EXCEPT !.state = "failed"]
    /\ upload' = [state |-> "idle"]
    /\ progress' = <<>>
    /\ UNCHANGED <<ratingVars, lifeVars, viewVars, objects, nonFormVars>>

\* await updatePost resolves: onSave(completePost) and onClose().
OnSubmitSaved ==
    /\ FormAt("updatePost")
    /\ form.postId \in live
    /\ postDocs' = [postDocs EXCEPT ![form.postId] = UpdateDoc(@, [title |-> form.title])]
    /\ form' = [form EXCEPT !.state = "saved"]
    /\ UNCHANGED <<ratingVars, lifeVars, writes, objects, uploadVars, nonFormVars>>

\* await createPost or await updatePost rejects: the catch logs and alerts,
\* setIsLoading(false); nothing is undone.
OnSubmitCatch ==
    /\ FormAt("createPost") \/ FormAt("updatePost")
    /\ form' = [form EXCEPT !.state = "failed"]
    /\ UNCHANGED <<ratingVars, lifeVars, viewVars, objects, uploadVars, nonFormVars>>

FormIdle == form = NoSubmit

FormNext ==
    \/ OnSubmit
    \/ OnSubmitCreated
    \/ OnSubmitUploads
    \/ \E i \in 1..MaxFormFiles : UploadBytesResolves(i)
    \/ \E i \in 1..MaxFormFiles : UploadBytesRejects(i)
    \/ \E i \in 1..MaxFormFiles : GetDownloadURLResolves(i)
    \/ \E i \in 1..MaxFormFiles : GetDownloadURLRejects(i)
    \/ OnSubmitUploaded
    \/ OnSubmitSaved
    \/ OnSubmitCatch

\* --------------------------------------------------------- authentication
MaxSignIns == 2

nonAuthVars == <<catalogueVars, mediaVars, uiVars, lifeVars, viewVars, formVars>>

\* The one pre-configured email address of the application.
AUTHORIZED_EMAIL == "owner@example.com"

\* null, whose `?.email` is undefined.
Null == [uid |-> "null", email |-> "undefined"]

\* The accounts the identity provider can sign in: the authorized one, ones
\* with another address, one that differs in case only, one without email.
Identities ==
    { [uid |-> "owner", email |-> AUTHORIZED_EMAIL],
      [uid |-> "other", email |-> "other@example.com"],
      [uid |-> "upper", email |-> "Owner@example.com"],
      [uid |-> "anon", email |-> "null"] }

\* A bug: whoever is signed in is authorized.
IsSignedIn(user) == user # Null

\* isAuthorizedUser(user): user?.email === AUTHORIZED_EMAIL
IsAuthorizedUser(user) == user.email = AUTHORIZED_EMAIL

\* The SDK's auth state becomes `user`, and its observers will be told.
SetCurrentUser(user) ==
    /\ session' = user
    /\ authEvents' = Append(authEvents, user)

\* signInWithGoogle(), up to `await signInWithPopup`.
SignInWithGoogle ==
    /\ signIn.state \in {"idle", "returned"}
    /\ signIn.count < MaxSignIns
    /\ signIn' = [state |-> "popup", user |-> Null, success |-> FALSE,
                  count |-> signIn.count + 1]
    /\ UNCHANGED <<session, appUser, authEvents, nonAuthVars>>

\* await signInWithPopup resolves with an account: it is the SDK's current
\* user. An authorized one is answered {success: true}; for any other,
\* firebaseSignOut(auth) is called.
SignInWithPopupResolves ==
    /\ signIn.state = "popup"
    /\ \E user \in Identities :
          /\ SetCurrentUser(user)
          /\ signIn' = IF ~IsAuthorizedUser(user)
                       THEN [signIn EXCEPT !.state = "signOut", !.user = user]
                       ELSE [signIn EXCEPT !.state = "returned", !.user = user,
                                           !.success = TRUE]
    /\ UNCHANGED <<appUser, nonAuthVars>>

\* await signInWithPopup rejects (the popup was closed): the catch answers
\* {success: false}.
SignInWithPopupRejects ==
    /\ signIn.state = "popup"
    /\ signIn' = [signIn EXCEPT !.state = "returned"]
    /\ UNCHANGED <<session, appUser, authEvents, nonAuthVars>>

\* await firebaseSignOut(auth) resolves in signInWithGoogle: the SDK clears
\* its current user, a local operation; {success: false} is returned.
SignInSignOutResolves ==
    /\ signIn.state = "signOut"
    /\ SetCurrentUser(Null)
    /\ signIn' = [signIn EXCEPT !.state = "returned"]
    /\ UNCHANGED <<appUser, nonAuthVars>>

\* signOut(): await firebaseSignOut(auth) resolves.
SignOut ==
    /\ session # Null
    /\ signIn.state \in {"idle", "returned"}
    /\ SetCurrentUser(Null)
    /\ UNCHANGED <<appUser, signIn, nonAuthVars>>

\* What the observer registered by onAuthStateChange passes on.
OnAuthStateChange(user) ==
    IF user # Null /\ IsAuthorizedUser(user) THEN user ELSE Null

\* The SDK tells the observer of its next auth state; AuthProvider's
\* callback stores what is passed on: setUser(user), setLoading(false).
OnAuthStateChanged ==
    /\ authEvents # <<>>
    /\ appUser' = OnAuthStateChange(Head(authEvents))
    /\ authEvents' = Tail(authEvents)
    /\ UNCHANGED <<session, signIn, nonAuthVars>>

\* `count` is history: the signInWithGoogle calls made so far.
NoSignIn == [state |-> "idle", user |-> Null, success |-> FALSE, count |-> 0]

AuthIdle ==
    /\ session = Null
    /\ appUser = Null
    /\ signIn = NoSignIn
    /\ authEvents = <<>>

\* AuthProvider has mounted and subscribed: the SDK will tell the observer
\* of the session it has restored, whoever it is of.
AuthInit ==
    /\ session \in Identities \cup {Null}
    /\ appUser = Null
    /\ signIn = NoSignIn
    /\ authEvents = <<session>>

AuthNext ==
    \/ SignInWithGoogle
    \/ SignInWithPopupResolves
    \/ SignInWithPopupRejects
    \/ SignInSignOutResolves
    \/ SignOut
    \/ OnAuthStateChanged

\* Nothing of this part of the application is running.
AppIdle == UiIdle /\ LifeIdle /\ ViewIdle /\ FormIdle /\ AuthIdle

\* ---------------------------------------------------------- specifications
vars == <<catalogueVars, mediaVars, appVars>>

\* No media call is running and the bucket is empty.
MediaIdle == ValidateIdle /\ StoreIdle /\ UploadIdle /\ MoveIdle /\ SweepIdle

\* Nothing but ratings is running.
OthersIdle == SearchIdle /\ TagIdle /\ MediaIdle

\* No post is rated, listed or searched, and the rest of the application is
\* at rest.
CatalogueIdle == RatingInit /\ PagesIdle /\ SearchIdle /\ TagIdle /\ AppIdle

Init == RatingInit /\ PagesIdle /\ OthersIdle /\ AppIdle

Next == RatingNext

\* Rating calls that do not wait for each other.
Spec == Init /\ [][Next]_vars

NextSeq == RatingNextSeq

\* Rating calls issued one after the other.
SpecSeq == Init /\ [][NextSeq]_vars

InitPages == RatingInit /\ PagesInit /\ OthersIdle /\ AppIdle

NextPages == PagesNext

\* One infinite listing over a fixed corpus.
SpecPages == InitPages /\ [][NextPages]_vars

InitSearch == RatingInit /\ SearchInit /\ TagIdle /\ MediaIdle /\ AppIdle

NextSearch == SearchNext

\* One search over a fixed corpus.
SpecSearch == InitSearch /\ [][NextSearch]_vars

InitTag == RatingInit /\ TagInit /\ SearchIdle /\ MediaIdle /\ AppIdle

NextTag == TagNext

\* One tag query over a fixed corpus.
SpecTag == InitTag /\ [][NextTag]_vars

InitValidate ==
    CatalogueIdle /\ ValidateInit /\ StoreIdle /\ UploadIdle /\ MoveIdle /\ SweepIdle

NextValidate == ValidateNext

\* One file put to validateFile.
SpecValidate == InitValidate /\ [][NextValidate]_vars

InitUpload ==
    CatalogueIdle /\ ValidateIdle /\ StoreIdle /\ UploadIdle /\ MoveIdle /\ SweepIdle

NextUpload == UploadNext

\* One uploadMultipleFiles call into an empty bucket.
SpecUpload == InitUpload /\ [][NextUpload]_vars

InitMove == CatalogueIdle /\ ValidateIdle /\ UploadIdle /\ MoveInit /\ SweepIdle

NextMove == MoveNext

\* One moveFilesToPost call over the temp uploads of a user.
SpecMove == InitMove /\ [][NextMove]_vars

InitSweep == CatalogueIdle /\ ValidateIdle /\ UploadIdle /\ MoveIdle /\ SweepInit

NextSweep == SweepNext

\* One cleanupTempFiles call over a bucket.
SpecSweep == InitSweep /\ [][NextSweep]_vars

InitRatingUi == Init

\* Ratings submitted from the rating section, one after the other, any
\* await of which may reject.
SpecRatingUi == InitRatingUi /\ [][RatingUiNext]_vars

InitLife ==
    /\ RatingInit /\ PagesIdle /\ OthersIdle
    /\ UiIdle /\ LifeInit /\ ViewIdle /\ FormIdle /\ AuthIdle

\* Posts created, commented, rated and deleted by callers that do not wait
\* for each other.
SpecLife == InitLife /\ [][LifeNext]_vars

\* The posts collection holds one post.
OnePost ==
    /\ live = {"p1"}
    /\ created = {"p1"}
    /\ comments = {}
    /\ commentCalls = <<>>
    /\ del = NoDelete

InitView ==
    /\ RatingInit /\ PagesIdle /\ OthersIdle
    /\ UiIdle /\ OnePost /\ ViewIdle /\ FormIdle /\ AuthIdle

\* Views, edits and ratings of a post, in any order.
SpecView == InitView /\ [][ViewNext]_vars

\* One post form, submitted until it has saved its post.
SpecForm == InitLife /\ [][FormNext]_vars

InitAuth ==
    /\ RatingInit /\ PagesIdle /\ OthersIdle
    /\ UiIdle /\ LifeIdle /\ ViewIdle /\ FormIdle /\ AuthInit

\* Sign-ins and sign-outs under the auth provider's listener.
SpecAuth == InitAuth /\ [][AuthNext]_vars

\* ------------------------------------------------------- rating properties
Quiescent == InFlight = {}

ValidStars(c) == calls[c].rating \in MinStars..MaxStars

AllStarsValid == \A c \in DOMAIN calls : calls[c].op = "submit" => ValidStars(c)

\* The tenth nearest to total / n (halves upward), stated without division.
NearestTenth(total, n) ==
    CHOOSE t \in 0..(10 * (MaxStars + 1)) :
        2 * n * t - n <= 20 * total /\ 20 * total < 2 * n * t + n

Expected(rows) ==
    IF rows = {} THEN [avgRating |-> 0, totalRatings |-> 0]
    ELSE [avgRating |-> NearestTenth(SumRatings(rows), Cardinality(rows)),
          totalRatings |-> Cardinality(rows)]

Consistent(p) == posts[p] = Expected(RowsOf(p))

RECURSIVE StarsOf(_)
StarsOf(cs) ==
    IF cs = {} THEN 0
    ELSE LET c == CHOOSE x \in cs : TRUE
         IN  calls[c].rating + StarsOf(cs \ {c})

\* The call that settled last, when nothing has been issued since.
JustSettled(c) == Quiescent /\ order # <<>> /\ c = order[Len(order)]

\* C1: when all the calls made so far are submitRating calls of N distinct
\* authors on one post, with stars in 1..5, and all have completed, the post
\* has totalRatings = N and avgRating = the mean of the stars to one decimal.
C1_DistinctAuthorsAggregate ==
    \A p \in Posts :
        (/\ Quiescent
         /\ calls # <<>>
         /\ \A c \in DOMAIN calls :
               /\ calls[c].op = "submit" /\ calls[c].pc = "done"
               /\ calls[c].postId = p /\ ValidStars(c)
         /\ \A c, d \in DOMAIN calls :
               c # d => calls[c].authorId # calls[d].authorId)
        => /\ posts[p].totalRatings = Cardinality(DOMAIN calls)
           /\ posts[p].avgRating =
                 NearestTenth(StarsOf(DOMAIN calls), Cardinality(DOMAIN calls))

\* C2: whenever no rating call is in flight (calls run one after another, with
\* stars in 1..5), each post's avgRating and totalRatings are the rounded mean
\* and the count of its stored Rating rows, 0 and 0 when it has none.
C2_AggregatesMatchRows ==
    (Quiescent /\ AllStarsValid) => \A p \in Posts : Consistent(p)

\* C3: the rating set a submitRating call reads for its recompute already
\* holds the caller's row with the value just submitted.
C3_RecomputeSeesSubmittedValue ==
    \A c \in DOMAIN calls :
        (calls[c].op = "submit" /\ calls[c].pc = "write")
        => \E row \in calls[c].seen :
              /\ row.postId = calls[c].postId
              /\ row.authorId = calls[c].authorId
              /\ row.rating = calls[c].rating

\* C4: a completed submitRating call of an author who already had a Rating on
\* the post has not increased totalRatings and has not added a row; the
\* author's row holds the new value.
C4_ReRatingKeepsCount ==
    \A c \in DOMAIN calls :
        (/\ JustSettled(c)
         /\ calls[c].op = "submit" /\ calls[c].pc = "done"
         /\ AllStarsValid
         /\ \E row \in calls[c].pre.rows : row.authorId = calls[c].authorId)
        => /\ posts[calls[c].postId].totalRatings <= calls[c].pre.post.totalRatings
           /\ Cardinality(RowsOf(calls[c].postId)) = Cardinality(calls[c].pre.rows)
           /\ \E row \in RowsOf(calls[c].postId) :
                 /\ row.authorId = calls[c].authorId
                 /\ row.rating = calls[c].rating

SameAuthor(c, d) ==
    /\ calls[c].op = "submit" /\ calls[d].op = "submit"
    /\ calls[c].postId = calls[d].postId
    /\ calls[c].authorId = calls[d].authorId

SameAuthorOverlap ==
    \E c, d \in DOMAIN calls : c # d /\ {c, d} \in overlaps /\ SameAuthor(c, d)

RowsOfAuthor(p, a) == {row \in ratings : row.postId = p /\ row.authorId = a}

\* C5: as long as no two submitRating calls of one author on one post have
\* been in flight together, there is at most one Rating row per
\* (postId, authorId), whatever calls of other authors were interleaved.
C5_OneRatingPerAuthor ==
    ~SameAuthorOverlap
    => \A p \in Posts, a \in Authors : Cardinality(RowsOfAuthor(p, a)) <= 1

\* Two completed, non-overlapping submissions of one author on a post, one of
\* them interleaved with another author's submission on that post, and the
\* author's single row.
C5_Witness ==
    \E c, d, e \in DOMAIN calls :
        /\ c # d /\ SameAuthor(c, d) /\ {c, d} \notin overlaps
        /\ calls[c].pc = "done" /\ calls[d].pc = "done"
        /\ calls[e].op = "submit" /\ calls[e].pc = "done"
        /\ calls[e].postId = calls[c].postId
        /\ calls[e].authorId # calls[c].authorId
        /\ ({c, e} \in overlaps \/ {d, e} \in overlaps)
        /\ ~SameAuthorOverlap
        /\ Cardinality(RowsOfAuthor(calls[c].postId, calls[c].authorId)) = 1

\* C6: after two overlapping submitRating calls of one author on one post have
\* both completed, the author has exactly one Rating row there, holding the
\* value of the call that committed last.
C6_LastWriteWins ==
    (/\ Quiescent
     /\ DOMAIN calls = {1, 2}
     /\ SameAuthor(1, 2) /\ {1, 2} \in overlaps
     /\ calls[1].pc = "done" /\ calls[2].pc = "done"
     /\ AllStarsValid)
    => LET rows == RowsOfAuthor(calls[1].postId, calls[1].authorId)
       IN  /\ Cardinality(rows) = 1
           /\ \A row \in rows : row.rating = calls[order[2]].rating

Overlapped(c) == \E d \in DOMAIN calls : {c, d} \in overlaps

\* C7: once overlapping submitRating calls of different authors have left a
\* post's aggregates stale, the next rating event on the post (a submitRating,
\* or a removeRating that finds a row) that runs alone to completion leaves
\* the aggregates equal to the rounded mean and count of the stored rows.
C7_NextEventRepairs ==
    \A c \in DOMAIN calls :
        (/\ JustSettled(c)
         /\ ~Overlapped(c)
         /\ calls[c].pc = "done"
         /\ calls[c].op = "delete" => calls[c].found # NoDoc
         /\ AllStarsValid
         /\ calls[c].pre.post # Expected(calls[c].pre.rows)
         /\ \E d, e \in DOMAIN calls :
               /\ {d, e} \in overlaps
               /\ calls[d].op = "submit" /\ calls[e].op = "submit"
               /\ calls[d].postId = calls[c].postId
               /\ calls[e].postId = calls[c].postId
               /\ calls[d].authorId # calls[e].authorId)
        => Consistent(calls[c].postId)

\* A removeRating call made when its author's Rating was the post's only one.
RemovesLastRating(c) ==
    /\ calls[c].op = "delete"
    /\ Cardinality(calls[c].pre.rows) = 1
    /\ \A row \in calls[c].pre.rows : row.authorId = calls[c].authorId

\* C8: removeRating on the only remaining Rating of a post leaves the post
\* without Rating rows and with avgRating = 0 and totalRatings = 0.
C8_LastRatingRemoved ==
    \A c \in DOMAIN calls :
        (JustSettled(c) /\ RemovesLastRating(c))
        => /\ calls[c].pc = "done"
           /\ RowsOf(calls[c].postId) = {}
           /\ posts[calls[c].postId] = [avgRating |-> 0, totalRatings |-> 0]

\* The only rating of a post whose aggregates showed it has been removed.
C8_Witness ==
    \E c \in DOMAIN calls :
        /\ JustSettled(c) /\ RemovesLastRating(c)
        /\ calls[c].pre.post.totalRatings = 1
        /\ RowsOf(calls[c].postId) = {}
        /\ posts[calls[c].postId].totalRatings = 0

\* C9: a submitRating call with stars outside 1..5 fails and writes nothing,
\* so every stored Rating is in 1..5 and every avgRating is in 0..5.
C9_StarsValidated ==
    /\ \A c \in DOMAIN calls :
          (calls[c].op = "submit" /\ ~ValidStars(c) /\ c \notin InFlight)
          => calls[c].pc = "failed"
    /\ \A row \in ratings : row.rating \in MinStars..MaxStars
    /\ \A p \in Posts : posts[p].avgRating \in 0..(10 * MaxStars)

\* ------------------------------------------------------ listing properties
PageCount == Len(pages)

PostCount == Cardinality(DocIds)

\* The page size the listing runs with.
K == EffectiveLimit(pageSize)

\* hasMore was false on the last page fetched: the listing is complete.
ListingDone == pages # <<>> /\ ~pages[PageCount].hasMore

\* Every page but the last has K posts and hasMore = true; the last page has
\* the remaining posts (K of them when K divides n > 0) and hasMore = false.
PageSizes ==
    /\ \A i \in 1..(PageCount - 1) :
          Len(pages[i].posts) = K /\ pages[i].hasMore
    /\ Len(pages[PageCount].posts) = PostCount - K * (PageCount - 1)
    /\ (PostCount > 0 /\ PostCount % K = 0) => Len(pages[PageCount].posts) = K

FourPages ==
    /\ PageCount = 4
    /\ \A i \in 1..3 : Len(pages[i].posts) = K
    /\ Len(pages[4].posts) = 2

\* C10 as stated: a complete listing has pages of size k but for the last,
\* which holds the rest, and n = 3k + 2 posts give 4 pages of sizes k, k, k, 2.
C10_PagesAsStated ==
    ListingDone => /\ PageSizes
                   /\ PostCount = 3 * K + 2 => FourPages

\* C10, amended: the same, with the 4 pages of sizes k, k, k, 2 for
\* n = 3k + 2 claimed for k >= 2 only (2 posts exceed a page of 1).
C10_Pages ==
    ListingDone => /\ PageSizes
                   /\ (PostCount = 3 * K + 2 /\ K >= 2) => FourPages

\* A complete listing of 3k + 2 posts in pages of k >= 2.
C10_Witness ==
    /\ ListingDone
    /\ K >= 2
    /\ PostCount = 3 * K + 2
    /\ FourPages

\* The posts of all fetched pages, in the order fetched.
RECURSIVE Concat(_)
Concat(ps) == IF ps = <<>> THEN <<>> ELSE Head(ps).posts \o Concat(Tail(ps))

Listed == Concat(pages)

\* The field the mode is said to order by.
ModeKey(d) ==
    IF sortBy \in {"newest", "oldest"} THEN corpus[d].createdAt
    ELSE IF sortBy = "rating" THEN corpus[d].avgRating
    ELSE corpus[d].viewCount

KeysDistinct == \A d, e \in DocIds : d # e => ModeKey(d) # ModeKey(e)

\* C11: over a corpus whose sort keys are pairwise distinct, the pages of a
\* complete listing hold every post exactly once, in the order of the mode:
\* createdAt descending (newest) or ascending (oldest), avgRating descending
\* (rating), viewCount descending (views).
C11_EveryPostOnceInOrder ==
    (ListingDone /\ KeysDistinct)
    => /\ Len(Listed) = PostCount
       /\ \A d \in DocIds : \E i \in DOMAIN Listed : Listed[i] = d
       /\ \A i, j \in DOMAIN Listed :
             i < j => IF sortBy = "oldest"
                      THEN ModeKey(Listed[i]) < ModeKey(Listed[j])
                      ELSE ModeKey(Listed[i]) > ModeKey(Listed[j])

\* A complete listing of at least three pages over distinct keys; each mode
\* has such listings.
C11_Witness ==
    /\ ListingDone /\ KeysDistinct
    /\ PageCount >= 3
    /\ sortBy = "oldest"
    /\ \E i, j \in DOMAIN Listed : i < j /\ Listed[i] > Listed[j]

\* ------------------------------------------------------- search properties
\* s[i..j] is a whitespace-separated token of s: a maximal run of characters
\* other than the space.
IsToken(s, i, j) ==
    /\ i <= j
    /\ \A k \in i..j : s[k] # " "
    /\ i = 1 \/ s[i - 1] = " "
    /\ j = Len(s) \/ s[j + 1] = " "

QueryTokens ==
    LET q == ToLowerCase(searchQuery)
    IN  { SubSeq(q, ij[1], ij[2]) :
            ij \in { p \in (DOMAIN q) \X (DOMAIN q) : IsToken(q, p[1], p[2]) } }

IsSubstring(t, s) ==
    \E i \in 1..(Len(s) + 1) : \E j \in (i - 1)..Len(s) : SubSeq(s, i, j) = t

MatchesSomeToken(d) ==
    \E t \in QueryTokens : IsSubstring(t, SearchContent(corpus[d]))

Found == { searchResult.posts[i] : i \in DOMAIN searchResult.posts }

\* C12: searchPosts returns exactly the posts of the fetched batch that hold
\* at least one whitespace-separated token of the lowercased query in their
\* lowercased title, content, excerpt and tags; a post matching no token is
\* not returned, whatever the spacing of the query.
C12_SearchIsOrOfTokens ==
    searchResult.done
    => \A d \in DocIds : (d \in Found) <=> MatchesSomeToken(d)

\* ---------------------------------------------------------- tag properties
Tagged == { d \in DocIds : \E i \in DOMAIN corpus[d].tags : corpus[d].tags[i] = tagArg }

Returned == { tagResult.posts[i] : i \in DOMAIN tagResult.posts }

\* C13: getPostsByTag returns only posts whose tags hold the tag, none of
\* them twice, newest first, at most 50; when more than 50 posts hold the tag
\* it returns 50, and no post left out is newer than a post returned.
C13_TagQuery ==
    tagResult.done
    => /\ Returned \subseteq Tagged
       /\ Cardinality(Returned) = Len(tagResult.posts)
       /\ \A i, j \in DOMAIN tagResult.posts :
             i < j => corpus[tagResult.posts[i]].createdAt >= corpus[tagResult.posts[j]].createdAt
       /\ Len(tagResult.posts) <= 50
       /\ Cardinality(Tagged) > 50
             => /\ Len(tagResult.posts) = 50
                /\ \A d \in Tagged \ Returned : \A e \in Returned :
                      corpus[d].createdAt <= corpus[e].createdAt

\* More than 50 posts hold the tag, some posts do not, and the query has
\* returned.
C13_Witness ==
    /\ tagResult.done
    /\ Cardinality(Tagged) > 50
    /\ Tagged # DocIds
    /\ Len(tagResult.posts) = 50

\* --------------------------------------------------- validation properties
\* 500 MiB, in bytes.
FiveHundredMiB == 524288000

\* The image and video types validateFile accepts.
AllowedMime ==
    {"image/jpeg", "image/jpg", "image/png", "image/webp", "image/gif",
     "video/mp4", "video/mkv", "video/webm", "video/mov", "video/avi"}

Total == Len(upload.files)

UploadSettled(i) == upload.pcs[i] \in {"fulfilled", "rejected"}

\* C15: the first argument of the k-th progress call is k, the number of
\* uploads completed so far, and the second the number of files: the values
\* reported are 1, 2, ..., total in that order.
C15_ProgressCountsCompleted ==
    \A k \in DOMAIN progress : progress[k] = <<k, Total>>

\* C16: uploadMultipleFiles does not settle before each of its uploads has
\* settled: once it has resolved or rejected, no upload is in flight.
C16_SettlesAfterAllUploads ==
    upload.state \in {"fulfilled", "rejected"}
    => \A i \in DOMAIN upload.pcs : UploadSettled(i)

\* C17: uploadMultipleFiles is rejected once one of its uploads is rejected
\* and resolves only when all have succeeded, and then with one MediaItem
\* per file, the i-th that of the i-th file, in whatever order the uploads
\* completed.
C17_AllOrNothingInInputOrder ==
    upload.state # "idle"
    => /\ (\E i \in DOMAIN upload.pcs : upload.pcs[i] = "rejected")
             => upload.state = "rejected"
       /\ upload.state = "rejected"
             => \E i \in DOMAIN upload.pcs : upload.pcs[i] = "rejected"
       /\ (\A i \in DOMAIN upload.pcs : upload.pcs[i] = "fulfilled")
             <=> upload.state = "fulfilled"
       /\ upload.state = "fulfilled"
             => /\ Len(upload.result) = Total
                /\ \A i \in 1..Total :
                      /\ upload.result[i].filename = upload.files[i].name
                      /\ upload.result[i].id = <<upload.stamps[i], upload.files[i].name>>
                      /\ upload.result[i].url.name = upload.result[i].id

\* Three files of different names or times have been uploaded, the last
\* completing first, and the call has resolved.
C17_Witness ==
    /\ upload.state = "fulfilled"
    /\ Total = 3
    /\ progress[1][1] = 3
    /\ \A i, j \in 1..Total : i # j => upload.result[i].id # upload.result[j].id

\* ------------------------------------------------------------ move properties
\* What was stored for a temp item before the move.
Original(item) ==
    (CHOOSE t \in TempUploads : <<t.stamp, t.name>> = item.id).content

StoredAt(path, content) ==
    \E o \in objects : o.path = path /\ o.content = content

\* C18: when moveFilesToPost has completed successfully it has returned one
\* MediaItem per input item, in input order, each stored under
\* posts/{postId}/ with the content of its original, and no original is left
\* under temp/{userId}/.
C18_MovedIntact ==
    move.state = "fulfilled"
    => /\ Len(move.movedFiles) = Len(move.tempFiles)
       /\ \A k \in DOMAIN move.tempFiles :
             /\ move.movedFiles[k].filename = move.tempFiles[k].filename
             /\ move.movedFiles[k].url.dir = "posts"
             /\ move.movedFiles[k].url.owner = move.postId
             /\ StoredAt(move.movedFiles[k].url, Original(move.tempFiles[k]))
             /\ ~\E o \in objects :
                    o.path = [dir |-> "temp", owner |-> move.userId,
                              name |-> move.tempFiles[k].id]

\* ----------------------------------------------------------- sweep properties
\* 24 hours, in milliseconds.
TwentyFourHours == 86400000

Swept == sweep.state # "idle"

InUsersTemp(o) == o.path.dir = "temp" /\ o.path.owner = sweep.userId

\* C19: the sweep deletes an object only if it lies under temp/{userId} and
\* now - createdAt is strictly greater than 24 hours: every other object of
\* the bucket, those of exactly 24 hours among them, is still there.
C19_DeletesOnlyOlderTemp ==
    Swept
    => /\ objects \subseteq sweep.before
       /\ \A o \in sweep.before :
             (~InUsersTemp(o) \/ SweepNow - o.timeCreated <= TwentyFourHours)
                => o \in objects

\* A sweep has ended that deleted an older object and passed over an object
\* of exactly 24 hours.
C19_Witness ==
    /\ sweep.state = "fulfilled"
    /\ \E o \in sweep.before \ objects : SweepNow - o.timeCreated = TwentyFourHours + 1
    /\ \E o \in objects : InUsersTemp(o) /\ SweepNow - o.timeCreated = TwentyFourHours

\* C20: the sweep never rejects, whichever call fails, and a failure on one
\* object does not end it: when the listing succeeded every listed object
\* has been examined by the end, and every older one whose own calls did not
\* fail is deleted.
C20_SweepGoesOn ==
    Swept
    => /\ sweep.state \in {"running", "fulfilled"}
       /\ (sweep.state = "fulfilled" /\ sweep.listed)
             => \A k \in DOMAIN sweep.files :
                   /\ k \in sweep.examined
                   /\ \A o \in sweep.before :
                         (/\ o.path = sweep.files[k]
                          /\ SweepNow - o.timeCreated > TwentyFourHours
                          /\ k \notin sweep.failed)
                            => o \notin objects

\* A sweep has ended in which a call on one object failed and a later, older
\* object was deleted.
C20_Witness ==
    /\ sweep.state = "fulfilled"
    /\ \E k \in sweep.failed : \E j \in DOMAIN sweep.files :
          /\ k < j
          /\ j \notin sweep.failed
          /\ ~\E o \in objects : o.path = sweep.files[j]

\* A removeRating call made when its author had no Rating on the post.
RemovesNothing(c) ==
    /\ calls[c].op = "delete"
    /\ ~\E row \in calls[c].pre.rows : row.authorId = calls[c].authorId

\* C23: removeRating for a pair without a Rating leaves the post's Rating
\* rows as they were and recomputes all the same: once it has completed, the
\* post's aggregates are the rounded mean and the count of its stored rows,
\* stale or not before the call.
C23_RemoveNothingRecomputes ==
    \A c \in DOMAIN calls :
        (JustSettled(c) /\ RemovesNothing(c) /\ AllStarsValid)
        => /\ calls[c].pc = "done"
           /\ RowsOf(calls[c].postId) = calls[c].pre.rows
           /\ Consistent(calls[c].postId)

\* ------------------------------------------------- move safety properties
\* The bytes a temp item was uploaded with are stored at its temp path or
\* somewhere under the post's directory.
BytesKept(item) ==
    \E o \in objects :
        /\ o.content = Original(item)
        /\ \/ o.path = [dir |-> "temp", owner |-> move.userId, name |-> item.id]
           \/ o.path.dir = "posts" /\ o.path.owner = move.postId

\* C25: at every point of a moveFilesToPost run, a failed or abandoned one
\* included, the bytes of each input item are stored under its temp path or
\* under the post's path, and the items after the current one are still in
\* temp as they were uploaded.
C25_BytesNeverLost ==
    move.state # "idle"
    => \A k \in DOMAIN move.tempFiles :
          /\ BytesKept(move.tempFiles[k])
          /\ k > move.i
             => StoredAt([dir |-> "temp", owner |-> move.userId,
                          name |-> move.tempFiles[k].id],
                         Original(move.tempFiles[k]))

\* -------------------------------------------------- validator agreement
\* C28: validateFile and the upload hook's validateFiles, with the default
\* options, accept the same files: once both have judged a file, one has
\* found it valid exactly when the other has kept it.
C28_ValidatorsAgree ==
    (verdict.done /\ hookVerdict.done)
    => (verdict.result.valid <=> hookVerdict.valid = <<file>>)

\* ------------------------------------------------ post lifecycle properties
\* C21: every stored Comment and every stored Rating references a post whose
\* document exists, and once deletePost(postId) has returned successfully no
\* Comment and no Rating with that postId is stored.
C21_NoOrphans ==
    /\ \A d \in comments : d.postId \in live
    /\ \A d \in ratings : d.postId \in live
    /\ del.state = "done"
       => /\ ~\E d \in comments : d.postId = del.postId
          /\ ~\E d \in ratings : d.postId = del.postId

\* C24: deletePost ends with an error only when the deletion of the post
\* document itself failed, and the document is then still there; a failure
\* while the comments and ratings are deleted is swallowed, the function
\* goes on to delete the post document, and a call that ends without error
\* has deleted it.
C24_CleanupFailuresSwallowed ==
    /\ del.state = "failed" => (del.pc = "post" /\ del.postId \in live)
    /\ del.swallowed => del.pc = "post"
    /\ del.state = "done" => del.postId \notin live

\* deletePost has succeeded although a deletion of a comment had failed, and
\* the comment is still stored.
C24_Witness ==
    /\ del.state = "done"
    /\ del.swallowed
    /\ \E d \in comments : d.postId = del.postId

\* The incrementViewCount calls on post p that have completed.
ViewsCompleted(p) ==
    {k \in DOMAIN writes :
        writes[k].op = "view" /\ writes[k].postId = p /\ writes[k].pc = "done"}

\* C26: a post's viewCount is its initial value, 0, plus the number of the
\* incrementViewCount calls on it that have completed, whatever updatePost
\* calls and rating recomputations ran in between; so it is never negative
\* and never goes down.
C26_NoViewLost ==
    \A p \in Posts :
        /\ postDocs[p].viewCount >= 0
        /\ postDocs[p].viewCount = Cardinality(ViewsCompleted(p))

\* A post viewed twice, edited and rated, all of it completed.
C26_Witness ==
    \E p \in Posts :
        /\ Cardinality(ViewsCompleted(p)) >= 2
        /\ \E k \in DOMAIN writes :
              writes[k].op = "update" /\ writes[k].postId = p /\ writes[k].pc = "done"
        /\ \E c \in DOMAIN calls : calls[c].postId = p /\ calls[c].pc = "done"

\* ---------------------------------------------- rating section properties
\* C27: when handleRatingSubmit has shown the aggregates of its submission
\* and no other rating call has been made since, what it passed to
\* onRatingUpdate is what the post document holds.
C27_ShownIsPersisted ==
    (ui.state = "shown" /\ ui.call = UiCall)
    => ui.shown = posts[calls[ui.call].postId]

\* The last call made was a submission that failed.
LastFailed(c) ==
    c = nextId - 1 /\ calls[c].op = "submit" /\ calls[c].pc = "failed"

\* C29: a submission that failed, whichever of its awaits rejected, has
\* rejected to its caller, whose catch has run once it has looked, and has
\* left the ratings collection as it was when the call was made.
C29_FailedSubmissionWritesNothing ==
    \A c \in DOMAIN calls :
        LastFailed(c)
        => /\ ratings = calls[c].pre.all
           /\ ui.call = c => ui.state = "failed"

\* A submission whose batch.commit() rejected, after its recompute had
\* written the post: ratings are stored, and the handler has caught the error.
C29_Witness ==
    \E c \in DOMAIN calls :
        /\ LastFailed(c)
        /\ ratings # {}
        /\ posts[calls[c].postId] # calls[c].pre.post
        /\ ui.call = c

\* ------------------------------------------------------- form properties
\* C30: a submission of the new-post form that failed has left no post
\* document, and a form that has saved, after any number of failed
\* submissions, has left exactly one.
C30_SaveIsAllOrNothing ==
    /\ form.state = "failed" => live = {}
    /\ form.state = "saved" => Cardinality(live) = 1

\* ------------------------------------------------------- auth properties
\* The account has the pre-configured address.
Authorized(user) == user.email = AUTHORIZED_EMAIL

====
